---- MODULE Spec2Model ----
(***************************************************************************)
(* Verification engine of the Denmark Ecosystem Map: the confidence        *)
(* scorer, the per-company orchestrator (verifyCompany), the rate-limit    *)
(* guard (checkRateLimit / alertRateLimit) and the two batch controllers   *)
(* (batchVerify, parallelBatchVerify), modelled from verification/index.js *)
(* and the modules it imports.                                             *)
(*                                                                         *)
(* Text values are sequences of one-character strings; the JavaScript      *)
(* values null and undefined are the two distinguished sequences Null and  *)
(* Undefined.  Wall-clock time is counted in minutes.                      *)
(***************************************************************************)
EXTENDS Integers, Sequences, FiniteSets, TLC

----------------------------------------------------------------------------
(* JavaScript values *)

Null == <<"NULL">>
Undefined == <<"UNDEFINED">>

\* undefined where an object is expected
UndefinedObj == [undefined |-> TRUE]

\* JavaScript truthiness of a text value: null, undefined and '' are falsy.
Truthy(t) == t \notin {Null, Undefined, <<>>}

Range(s) == {s[k] : k \in DOMAIN s}

Min(a, b) == IF a <= b THEN a ELSE b
Max(a, b) == IF a >= b THEN a ELSE b

UpperChars == <<"A","B","C","D","E","F","G","H","I","J","K","L","M",
                "N","O","P","Q","R","S","T","U","V","W","X","Y","Z","Ø","Æ","Å">>
LowerChars == <<"a","b","c","d","e","f","g","h","i","j","k","l","m",
                "n","o","p","q","r","s","t","u","v","w","x","y","z","ø","æ","å">>
Digits == <<"0","1","2","3","4","5","6","7","8","9">>
Whitespace == {" "}

IndexIn(c, seq) == CHOOSE i \in 1..Len(seq) : seq[i] = c

ToLowerChar(c) ==
    IF \E i \in 1..Len(UpperChars) : UpperChars[i] = c
    THEN LowerChars[IndexIn(c, UpperChars)]
    ELSE c

\* String.prototype.toLowerCase
ToLowerCase(s) == [i \in 1..Len(s) |-> ToLowerChar(s[i])]

\* String.prototype.trim
Trim(s) ==
    LET nonWs == {i \in 1..Len(s) : s[i] \notin Whitespace}
    IN  IF nonWs = {} THEN <<>>
        ELSE LET lo == CHOOSE i \in nonWs : \A k \in nonWs : i <= k
                 hi == CHOOSE i \in nonWs : \A k \in nonWs : i >= k
             IN  SubSeq(s, lo, hi)

\* String.prototype.includes
Includes(s, t) ==
    \E i \in 1..(Len(s) - Len(t) + 1) : SubSeq(s, i, i + Len(t) - 1) = t

IsDigit(c) == \E i \in 1..Len(Digits) : Digits[i] = c
DigitValue(c) == IndexIn(c, Digits) - 1

\* parseInt of a text made of decimal digits
RECURSIVE ParseDigits(_)
ParseDigits(s) ==
    IF s = <<>> THEN 0
    ELSE 10 * ParseDigits(SubSeq(s, 1, Len(s) - 1)) + DigitValue(s[Len(s)])

\* Math.round of the rational n/d (d > 0, n >= 0): halves round up
RoundDiv(n, d) == (2 * n + d) \div (2 * d)

----------------------------------------------------------------------------
(* Industry classifier: industry-codes.js *)

STARTUP_CODES ==
    <<
      [key |-> <<"5", "8">>, label |-> "Publishing", score |-> 70],
      [key |-> <<"5", "9">>, label |-> "Film/Video/TV Production", score |-> 60],
      [key |-> <<"6", "0">>, label |-> "Broadcasting", score |-> 50],
      [key |-> <<"6", "1">>, label |-> "Telecommunications", score |-> 75],
      [key |-> <<"6", "2">>, label |-> "IT Services & Software", score |-> 100],
      [key |-> <<"6", "2", "0">>, label |-> "Computer Programming", score |-> 100],
      [key |-> <<"6", "2", "0", "1">>, label |-> "Computer Programming Activities", score |-> 100],
      [key |-> <<"6", "2", "0", "2">>, label |-> "IT Consultancy", score |-> 90],
      [key |-> <<"6", "2", "0", "3">>, label |-> "Computer Facilities Management", score |-> 85],
      [key |-> <<"6", "2", "0", "9">>, label |-> "Other IT Services", score |-> 85],
      [key |-> <<"6", "3">>, label |-> "Information Services", score |-> 95],
      [key |-> <<"6", "3", "1">>, label |-> "Data Processing & Hosting", score |-> 95],
      [key |-> <<"6", "3", "1", "1">>, label |-> "Data Processing", score |-> 95],
      [key |-> <<"6", "3", "1", "2">>, label |-> "Web Portals", score |-> 90],
      [key |-> <<"6", "3", "9">>, label |-> "Other Information Services", score |-> 80],
      [key |-> <<"7", "2">>, label |-> "Scientific R&D", score |-> 95],
      [key |-> <<"7", "2", "1">>, label |-> "Natural Sciences R&D", score |-> 95],
      [key |-> <<"7", "2", "1", "1">>, label |-> "Biotechnology R&D", score |-> 100],
      [key |-> <<"7", "2", "1", "9">>, label |-> "Other Natural Sciences R&D", score |-> 90],
      [key |-> <<"7", "2", "2">>, label |-> "Social Sciences R&D", score |-> 70],
      [key |-> <<"7", "0">>, label |-> "Head Offices & Mgmt Consultancy", score |-> 50],
      [key |-> <<"7", "0", "2">>, label |-> "Management Consultancy", score |-> 60],
      [key |-> <<"7", "0", "2", "1">>, label |-> "PR & Communication", score |-> 65],
      [key |-> <<"7", "0", "2", "2">>, label |-> "Business Consultancy", score |-> 55],
      [key |-> <<"2", "1">>, label |-> "Pharmaceuticals Manufacturing", score |-> 85],
      [key |-> <<"2", "1", "2">>, label |-> "Pharmaceutical Preparations", score |-> 85],
      [key |-> <<"2", "6">>, label |-> "Electronics Manufacturing", score |-> 90],
      [key |-> <<"2", "6", "1">>, label |-> "Electronic Components", score |-> 90],
      [key |-> <<"2", "6", "2">>, label |-> "Computers & Peripherals", score |-> 95],
      [key |-> <<"2", "6", "3">>, label |-> "Communication Equipment", score |-> 90],
      [key |-> <<"2", "6", "4">>, label |-> "Consumer Electronics", score |-> 80],
      [key |-> <<"2", "6", "5">>, label |-> "Measuring Instruments", score |-> 85],
      [key |-> <<"2", "7">>, label |-> "Electrical Equipment", score |-> 75],
      [key |-> <<"2", "8">>, label |-> "Machinery Manufacturing", score |-> 70],
      [key |-> <<"6", "4">>, label |-> "Financial Services", score |-> 70],
      [key |-> <<"6", "4", "1", "9">>, label |-> "Other Monetary Intermediation", score |-> 75],
      [key |-> <<"6", "4", "9">>, label |-> "Other Financial Services", score |-> 70],
      [key |-> <<"6", "4", "9", "9">>, label |-> "Other Financial Activities", score |-> 75],
      [key |-> <<"6", "6">>, label |-> "Auxiliary Financial Services", score |-> 65]
    >>

HOLDING_CODES ==
    <<
      [key |-> <<"6", "4", "2", "0">>, label |-> "Holding Companies", score |-> 100],
      [key |-> <<"6", "4", "2">>, label |-> "Activities of Holding Companies", score |-> 100],
      [key |-> <<"6", "4", "3", "0">>, label |-> "Trusts & Funds", score |-> 90],
      [key |-> <<"6", "4", "3">>, label |-> "Trusts, Funds & Similar", score |-> 90],
      [key |-> <<"6", "4", "9", "9">>, label |-> "Other Financial Services (often SPVs)", score |-> 60],
      [key |-> <<"7", "0", "1", "0">>, label |-> "Head Offices", score |-> 70],
      [key |-> <<"7", "0", "1">>, label |-> "Activities of Head Offices", score |-> 70]
    >>

LOCAL_SERVICE_CODES ==
    <<
      [key |-> <<"4", "7">>, label |-> "Retail Trade", score |-> 100],
      [key |-> <<"4", "7", "1">>, label |-> "Retail in Stores", score |-> 100],
      [key |-> <<"4", "7", "2">>, label |-> "Food Retail", score |-> 100],
      [key |-> <<"4", "7", "1", "1">>, label |-> "Supermarkets", score |-> 100],
      [key |-> <<"4", "7", "1", "9">>, label |-> "Department Stores", score |-> 100],
      [key |-> <<"4", "7", "2", "1">>, label |-> "Fruit & Vegetables", score |-> 100],
      [key |-> <<"4", "7", "2", "4">>, label |-> "Bakery Retail", score |-> 100],
      [key |-> <<"5", "5">>, label |-> "Accommodation", score |-> 90],
      [key |-> <<"5", "5", "1">>, label |-> "Hotels", score |-> 90],
      [key |-> <<"5", "6">>, label |-> "Food & Beverage Service", score |-> 100],
      [key |-> <<"5", "6", "1">>, label |-> "Restaurants", score |-> 100],
      [key |-> <<"5", "6", "1", "0">>, label |-> "Restaurants & Cafes", score |-> 100],
      [key |-> <<"5", "6", "2">>, label |-> "Event Catering", score |-> 95],
      [key |-> <<"5", "6", "3">>, label |-> "Bars", score |-> 100],
      [key |-> <<"9", "6">>, label |-> "Personal Services", score |-> 100],
      [key |-> <<"9", "6", "0", "1">>, label |-> "Laundry Services", score |-> 100],
      [key |-> <<"9", "6", "0", "2">>, label |-> "Hairdressing & Beauty", score |-> 100],
      [key |-> <<"9", "6", "0", "3">>, label |-> "Funeral Services", score |-> 100],
      [key |-> <<"9", "6", "0", "4">>, label |-> "Physical Wellbeing", score |-> 95],
      [key |-> <<"9", "6", "0", "9">>, label |-> "Other Personal Services", score |-> 90],
      [key |-> <<"4", "1">>, label |-> "Building Construction", score |-> 80],
      [key |-> <<"4", "2">>, label |-> "Civil Engineering", score |-> 70],
      [key |-> <<"4", "3">>, label |-> "Specialized Construction", score |-> 85],
      [key |-> <<"6", "8">>, label |-> "Real Estate", score |-> 90],
      [key |-> <<"6", "8", "1">>, label |-> "Real Estate with Own Property", score |-> 95],
      [key |-> <<"6", "8", "2">>, label |-> "Real Estate on Fee/Contract", score |-> 85],
      [key |-> <<"6", "8", "3">>, label |-> "Real Estate Management", score |-> 80]
    >>

\* TABLE[prefix] of a JavaScript object literal: the entry, if any
HasKey(table, k) == \E i \in 1..Len(table) : table[i].key = k
Entry(table, k) == table[CHOOSE i \in 1..Len(table) : table[i].key = k]

\* .replace(/\s/g, '')
RemoveWhitespace(s) == SelectSeq(s, LAMBDA c : c \notin Whitespace)

\* .replace(/^0+/, '')
RECURSIVE StripLeadingZeros(_)
StripLeadingZeros(s) ==
    IF s # <<>> /\ s[1] = "0" THEN StripLeadingZeros(Tail(s)) ELSE s

\* a prefix search that looks into the startup table first
RECURSIVE ClassifyPrefix_StartupFirst(_, _)
ClassifyPrefix_StartupFirst(normalizedCode, len) ==
    IF len < 2 THEN [type |-> "unknown", score |-> 50, label |-> "Unclassified Industry"]
    ELSE LET prefix == SubSeq(normalizedCode, 1, len)
         IN  IF HasKey(STARTUP_CODES, prefix)
             THEN [type |-> "startup",
                   score |-> Entry(STARTUP_CODES, prefix).score,
                   label |-> Entry(STARTUP_CODES, prefix).label]
             ELSE IF HasKey(HOLDING_CODES, prefix)
             THEN [type |-> "holding",
                   score |-> Entry(HOLDING_CODES, prefix).score,
                   label |-> Entry(HOLDING_CODES, prefix).label]
             ELSE IF HasKey(LOCAL_SERVICE_CODES, prefix)
             THEN [type |-> "local_service",
                   score |-> Entry(LOCAL_SERVICE_CODES, prefix).score,
                   label |-> Entry(LOCAL_SERVICE_CODES, prefix).label]
             ELSE ClassifyPrefix_StartupFirst(normalizedCode, len - 1)

RECURSIVE ClassifyPrefix(_, _)
ClassifyPrefix(normalizedCode, len) ==
    IF len < 2 THEN [type |-> "unknown", score |-> 50, label |-> "Unclassified Industry"]
    ELSE LET prefix == SubSeq(normalizedCode, 1, len)
         IN  IF HasKey(HOLDING_CODES, prefix)
             THEN [type |-> "holding",
                   score |-> Entry(HOLDING_CODES, prefix).score,
                   label |-> Entry(HOLDING_CODES, prefix).label]
             ELSE IF HasKey(LOCAL_SERVICE_CODES, prefix)
             THEN [type |-> "local_service",
                   score |-> Entry(LOCAL_SERVICE_CODES, prefix).score,
                   label |-> Entry(LOCAL_SERVICE_CODES, prefix).label]
             ELSE IF HasKey(STARTUP_CODES, prefix)
             THEN [type |-> "startup",
                   score |-> Entry(STARTUP_CODES, prefix).score,
                   label |-> Entry(STARTUP_CODES, prefix).label]
             ELSE ClassifyPrefix(normalizedCode, len - 1)

\* a classifier that keeps the leading zeros of the code
classifyIndustryCode_ZerosKept(code) ==
    IF ~Truthy(code) THEN [type |-> "unknown", score |-> 50, label |-> "Unknown"]
    ELSE LET normalizedCode == RemoveWhitespace(code)
         IN  ClassifyPrefix(normalizedCode, Len(normalizedCode))

classifyIndustryCode(code) ==
    IF ~Truthy(code) THEN [type |-> "unknown", score |-> 50, label |-> "Unknown"]
    ELSE LET normalizedCode == StripLeadingZeros(RemoveWhitespace(code))
         IN  ClassifyPrefix(normalizedCode, Len(normalizedCode))

----------------------------------------------------------------------------
(* Confidence scorer: confidence-scorer.js *)

\* WEIGHTS, in hundredths
\* weights in which the registry status counts for nothing
WEIGHTS_NoStatus == [cvrStatus |-> 0, industry |-> 55, age |-> 15, webPresence |-> 20, nameMatch |-> 10]

WEIGHTS == [cvrStatus |-> 30, industry |-> 25, age |-> 15, webPresence |-> 20, nameMatch |-> 10]

STATUS_SCORES ==
    <<
      [key |-> <<"n","o","r","m","a","l">>, score |-> 100],
      [key |-> <<"a","k","t","i","v">>, score |-> 100],
      [key |-> <<"a","c","t","i","v","e">>, score |-> 100],
      [key |-> <<"u","n","d","e","r"," ","k","o","n","k","u","r","s">>, score |-> 20],
      [key |-> <<"k","o","n","k","u","r","s">>, score |-> 0],
      [key |-> <<"o","p","l","ø","s","t">>, score |-> 0],
      [key |-> <<"t","v","a","n","g","s","o","p","l","ø","s","t">>, score |-> 0],
      [key |-> <<"u","n","d","e","r"," ","f","r","i","v","i","l","l","i","g"," ",
                 "l","i","k","v","i","d","a","t","i","o","n">>, score |-> 30],
      [key |-> <<"u","n","d","e","r"," ","t","v","a","n","g","s","o","p","l","ø","s","n","i","n","g">>,
       score |-> 10],
      [key |-> <<"o","p","h","ø","r","t">>, score |-> 0],
      [key |-> <<"s","l","e","t","t","e","t">>, score |-> 0]
    >>

scoreCvrStatus(status) ==
    IF ~Truthy(status) THEN 50
    ELSE LET normalizedStatus == Trim(ToLowerCase(status))
             partial == {i \in 1..Len(STATUS_SCORES) :
                            Includes(normalizedStatus, STATUS_SCORES[i].key)}
         IN  IF HasKey(STATUS_SCORES, normalizedStatus)
             THEN Entry(STATUS_SCORES, normalizedStatus).score
             ELSE IF partial # {}
             THEN STATUS_SCORES[CHOOSE i \in partial : \A k \in partial : i <= k].score
             ELSE 50

scoreIndustry(industryCode) ==
    LET classification == classifyIndustryCode(industryCode)
    IN  [score |-> classification.score,
         classification |-> classification.type,
         label |-> classification.label]

\* A missing founding year (null, undefined, 0: all falsy) is NoYear.
NoYear == 0

\* an age score that gives nothing to a company of more than 25 years
scoreAge_NothingForLegacy(foundedYear, currentYear) ==
    IF foundedYear = NoYear THEN 50
    ELSE LET age == currentYear - foundedYear
         IN  IF age >= 1 /\ age <= 5 THEN 100
             ELSE IF age > 5 /\ age <= 10 THEN 85
             ELSE IF age > 10 /\ age <= 15 THEN 60
             ELSE IF age > 15 /\ age <= 25 THEN 40
             ELSE IF age > 25 THEN 0
             ELSE 70

scoreAge(foundedYear, currentYear) ==
    IF foundedYear = NoYear THEN 50
    ELSE LET age == currentYear - foundedYear
         IN  IF age >= 1 /\ age <= 5 THEN 100
             ELSE IF age > 5 /\ age <= 10 THEN 85
             ELSE IF age > 10 /\ age <= 15 THEN 60
             ELSE IF age > 15 /\ age <= 25 THEN 40
             ELSE IF age > 25 THEN 20
             ELSE IF age < 1 THEN 70
             ELSE IF age < 0 THEN 0
             ELSE 50

\* webPresence: [websiteReachable, linkedInFound : BOOLEAN, socialMedia : Nat
\* (the length of the array), pressFound : BOOLEAN]
scoreWebPresence(webPresence) ==
    IF webPresence = UndefinedObj THEN 0
    ELSE LET s1 == IF webPresence.websiteReachable THEN 40 ELSE 0
             s2 == IF webPresence.linkedInFound THEN 30 ELSE 0
             s3 == IF webPresence.socialMedia > 0
                   THEN Min(20, webPresence.socialMedia * 10) ELSE 0
             s4 == IF webPresence.pressFound THEN 10 ELSE 0
         IN  Min(100, s1 + s2 + s3 + s4)

\* calculatePresenceScore of the web checker.  website, linkedin: the
\* objects checkWebsite and checkLinkedIn resolve to; social.count: the
\* number of platforms
calculatePresenceScore(website, linkedin, social) ==
    LET s1 == IF website.reachable
              THEN 40 + (IF "hasHttps" \in DOMAIN website /\ website.hasHttps
                         THEN 10 ELSE 0)
              ELSE 0
        s2 == IF linkedin.found
              THEN (IF "confidence" \in DOMAIN linkedin /\ linkedin.confidence = "high"
                    THEN 30 ELSE 20)
              ELSE 0
        s3 == Min(20, social.count * 5)
    IN  Min(100, s1 + s2 + s3)

\* the object checkWebPresence resolves to, from the three probe results
\* (socialMedia: the length of the platforms array)
checkWebPresence(websiteResult, linkedInResult, socialResult) ==
    [websiteReachable |-> websiteResult.reachable,
     linkedInFound |-> linkedInResult.found,
     socialMedia |-> socialResult.count,
     socialMediaCount |-> socialResult.count,
     presenceScore |-> calculatePresenceScore(websiteResult, linkedInResult, socialResult)]

\* One row of the Levenshtein matrix: row i from row i-1 (prev), filled left
\* to right; cell j of a row is at index j+1.
\* Row i of the matrix of levenshteinSimilarity (cell j at index j + 1),
\* filled left to right from row i - 1 (prev); acc holds the cells done so
\* far.  Each new value is bound before the recursion goes on.
RECURSIVE LevRow(_, _, _, _)
LevRow(a, bc, prev, acc) ==
    IF Len(acc) > Len(a) THEN acc
    ELSE LET j == Len(acc)
             cell == IF bc = a[j] THEN prev[j]
                     ELSE Min(prev[j] + 1, Min(acc[j] + 1, prev[j + 1] + 1))
         IN  CHOOSE r \in {LevRow(a, bc, prev, next) : next \in {Append(acc, cell)}} : TRUE

RECURSIVE LevRows(_, _, _, _)
LevRows(a, b, prev, i) ==
    IF i > Len(b) THEN prev
    ELSE CHOOSE r \in {LevRows(a, b, row, i + 1) :
                           row \in {LevRow(a, b[i], prev, <<i>>)}} : TRUE

\* matrix[b.length][a.length]
levenshteinDistance(a, b) ==
    LevRows(a, b, [j \in 1..(Len(a) + 1) |-> j - 1], 1)[Len(a) + 1]

\* Math.round(levenshteinSimilarity(a, b) * 100)
levenshteinSimilarity100(a, b) ==
    LET maxLen == Max(Len(a), Len(b))
    IN  IF maxLen = 0 THEN 100
        ELSE RoundDiv(100 * (maxLen - levenshteinDistance(a, b)), maxLen)

scoreNameMatch(searchedName, foundName) ==
    IF ~Truthy(searchedName) \/ ~Truthy(foundName) THEN 0
    ELSE LET a == Trim(ToLowerCase(searchedName))
             b == Trim(ToLowerCase(foundName))
         IN  IF a = b THEN 100
             ELSE IF Includes(a, b) \/ Includes(b, a) THEN 90
             ELSE levenshteinSimilarity100(a, b)

\* a scorer that still asks for a review at a total of 70
calculateConfidence_ReviewUpTo70(data, currentYear) ==
    LET scores == [cvrStatus |-> scoreCvrStatus(data.cvrStatus),
                   industry |-> scoreIndustry(data.industryCode),
                   age |-> scoreAge(data.foundedYear, currentYear),
                   webPresence |-> scoreWebPresence(data.webPresence),
                   nameMatch |-> scoreNameMatch(data.searchedName, data.foundName)]
        total == RoundDiv(scores.cvrStatus * WEIGHTS.cvrStatus
                          + scores.industry.score * WEIGHTS.industry
                          + scores.age * WEIGHTS.age
                          + scores.webPresence * WEIGHTS.webPresence
                          + scores.nameMatch * WEIGHTS.nameMatch, 100)
    IN  [confidence |-> total,
         classification |-> scores.industry.classification,
         needsReview |-> (total >= 40 /\ total <= 70),
         breakdown |-> [cvrStatus |-> scores.cvrStatus,
                        industry |-> scores.industry.score,
                        industryLabel |-> scores.industry.label,
                        age |-> scores.age,
                        webPresence |-> scores.webPresence,
                        nameMatch |-> scores.nameMatch]]

\* a scorer whose total below 40 gives unknown before the industry type
\* is looked at
calculateConfidence_UnknownFirst(data, currentYear) ==
    LET scores == [cvrStatus |-> scoreCvrStatus(data.cvrStatus),
                   industry |-> scoreIndustry(data.industryCode),
                   age |-> scoreAge(data.foundedYear, currentYear),
                   webPresence |-> scoreWebPresence(data.webPresence),
                   nameMatch |-> scoreNameMatch(data.searchedName, data.foundName)]
        total == RoundDiv(scores.cvrStatus * WEIGHTS.cvrStatus
                          + scores.industry.score * WEIGHTS.industry
                          + scores.age * WEIGHTS.age
                          + scores.webPresence * WEIGHTS.webPresence
                          + scores.nameMatch * WEIGHTS.nameMatch, 100)
        classification ==
            IF total < 40 THEN "unknown"
            ELSE IF total >= 70 /\ scores.industry.classification = "startup" THEN "startup"
            ELSE scores.industry.classification
    IN  [confidence |-> total,
         classification |-> classification,
         needsReview |-> (total >= 40 /\ total < 70),
         breakdown |-> [cvrStatus |-> scores.cvrStatus,
                        industry |-> scores.industry.score,
                        industryLabel |-> scores.industry.label,
                        age |-> scores.age,
                        webPresence |-> scores.webPresence,
                        nameMatch |-> scores.nameMatch]]

calculateConfidence(data, currentYear) ==
    LET scores == [cvrStatus |-> scoreCvrStatus(data.cvrStatus),
                   industry |-> scoreIndustry(data.industryCode),
                   age |-> scoreAge(data.foundedYear, currentYear),
                   webPresence |-> scoreWebPresence(data.webPresence),
                   nameMatch |-> scoreNameMatch(data.searchedName, data.foundName)]
        total == RoundDiv(scores.cvrStatus * WEIGHTS.cvrStatus
                          + scores.industry.score * WEIGHTS.industry
                          + scores.age * WEIGHTS.age
                          + scores.webPresence * WEIGHTS.webPresence
                          + scores.nameMatch * WEIGHTS.nameMatch, 100)
        classification ==
            IF scores.industry.classification = "holding" THEN "holding"
            ELSE IF scores.industry.classification = "local_service" THEN "local_service"
            ELSE IF total >= 70 /\ scores.industry.classification = "startup" THEN "startup"
            ELSE IF total < 40 THEN "unknown"
            ELSE scores.industry.classification
    IN  [confidence |-> total,
         classification |-> classification,
         needsReview |-> (total >= 40 /\ total < 70),
         breakdown |-> [cvrStatus |-> scores.cvrStatus,
                        industry |-> scores.industry.score,
                        industryLabel |-> scores.industry.label,
                        age |-> scores.age,
                        webPresence |-> scores.webPresence,
                        nameMatch |-> scores.nameMatch]]

----------------------------------------------------------------------------
(* Bounds of the model *)

\* the industry codes given to the classifier on its own have up to
\* MaxCodeLen digits
MaxCodeLen == 3

\* the longest run of leading zeros added to a code
MaxZeros == 2

\* the clock stops at MaxNow minutes
MaxNow == 6

\* the probes find up to MaxSocial social media platforms
MaxSocial == 6

\* the clock of the calls of alertRateLimit on its own stops at MaxAlertNow
\* minutes
MaxAlertNow == 21
\* the year new Date().getFullYear() returns during the run
CurrentYear == 2026

----------------------------------------------------------------------------
(* JavaScript objects are records; a property that is absent reads as       *)
(* undefined.                                                               *)

\* o?.f for a text property, and for an object property
Prop(o, f) == IF f \in DOMAIN o THEN o[f] ELSE Undefined
PropObj(o, f) == IF f \in DOMAIN o THEN o[f] ELSE UndefinedObj

\* o.f = v, adding the property when o has none
SetProp(o, f, v) == [k \in DOMAIN o \cup {f} |-> IF k = f THEN v ELSE o[k]]

\* o?.f === v for a boolean v
PropIs(o, f, v) == f \in DOMAIN o /\ o[f] = v

\* JSON.stringify drops the keys whose value is undefined (textKeys: the keys
\* that hold text and so can be undefined)
JsonStringify(o, textKeys) ==
    LET kept == {k \in DOMAIN o : ~(k \in textKeys /\ o[k] = Undefined)}
    IN  [k \in kept |-> o[k]]

----------------------------------------------------------------------------
(* The record store: tables companies and verification_results             *)

PleoName == <<"P","l","e","o">>
NovoName == <<"N","o","v","o">>

\* ids the batches are given: "a" and "b" are rows of companies, "x" is not
StoredIds == {"a", "b"}
CompanyIds == StoredIds \cup {"x"}

InitialCompanies ==
    [id \in StoredIds |->
        [name |-> IF id = "a" THEN PleoName ELSE NovoName,
         cvr |-> Null,
         founded |-> IF id = "a" THEN NoYear ELSE 1990,
         website |-> IF id = "a" THEN <<"p",".","i","o">> ELSE Null,
         verified |-> FALSE,
         needs_review |-> FALSE]]

\* the columns of verification_results that verifyCompany writes (id and
\* verified_at, which the store generates on insert, are left out)
ResultColumns ==
    {"company_id", "cvr_number", "cvr_status", "industry_code", "industry_description",
     "legal_form", "company_purpose", "confidence_score", "classification",
     "needs_review", "web_presence", "raw_cvr_data"}

\* column defaults of CREATE TABLE verification_results
ColumnDefault(col) == IF col = "needs_review" THEN FALSE ELSE Null

\* the row an INSERT of the payload creates
InsertedRow(payload) ==
    [col \in ResultColumns |->
        IF col \in DOMAIN payload THEN payload[col] ELSE ColumnDefault(col)]

\* .upsert(row, { onConflict: 'company_id' }): INSERT ... ON CONFLICT
\* (company_id) DO UPDATE SET <the columns of the payload>
UpsertRow(table, payload) ==
    LET same == {r \in table : r.company_id = payload.company_id}
        merged(old) == [col \in ResultColumns |->
                           IF col \in DOMAIN payload THEN payload[col] ELSE old[col]]
    IN  IF same = {} THEN table \cup {InsertedRow(payload)}
        ELSE (table \ same) \cup {merged(r) : r \in same}

\* .update(companyUpdate).eq('id', companyId)
UpdateRow(table, id, update) ==
    IF id \notin DOMAIN table THEN table
    ELSE [table EXCEPT ![id] =
            [col \in DOMAIN table[id] |->
                IF col \in DOMAIN update THEN update[col] ELSE table[id][col]]]

----------------------------------------------------------------------------
(* The registry: what extractCompanyData can read off the page             *)

EmptyData ==
    [found |-> FALSE, cvrNumber |-> Null, officialName |-> Null, status |-> Null,
     legalForm |-> Null, industryCode |-> Null, industryDescription |-> Null,
     purpose |-> Null, startDate |-> Null]

RegistryPages ==
    { [EmptyData EXCEPT !.found = TRUE,
         !.cvrNumber = <<"1","1">>,
         !.officialName = <<"P","l","e","o"," ","A","p","S">>,
         !.status = <<"N","o","r","m","a","l">>,
         !.legalForm = <<"A","p","S">>,
         !.industryCode = <<"6","2","0","1","0","0">>,
         !.industryDescription = <<"I","T">>,
         !.startDate = <<"0","1",".","0","1",".","2","0","2","0">>],
      [EmptyData EXCEPT !.found = TRUE,
         !.cvrNumber = <<"2","2">>,
         !.officialName = <<"N","o","r","d"," ","H","o","l","d","i","n","g">>,
         !.status = <<"O","p","l","ø","s","t">>,
         !.legalForm = <<"A","/","S">>,
         !.industryCode = <<"6","4","2","0","2","0">>,
         !.industryDescription = <<"H","o","l","d","i","n","g">>],
      \* a detail page none of whose elements is visible
      [EmptyData EXCEPT !.found = TRUE] }

SearchError == <<"T","i","m","e","o","u","t">>

\* lookupCompany(companyName, cvrNumber): the resolved value
LookupFound(data, companyName, cvrNumber) ==
    [success |-> data.found, searchedName |-> companyName, searchedCvr |-> cvrNumber,
     found |-> data.found, cvrNumber |-> data.cvrNumber, officialName |-> data.officialName,
     status |-> data.status, legalForm |-> data.legalForm, industryCode |-> data.industryCode,
     industryDescription |-> data.industryDescription, purpose |-> data.purpose,
     startDate |-> data.startDate]

LookupFailed(message, companyName, cvrNumber) ==
    [success |-> FALSE, error |-> message,
     searchedName |-> companyName, searchedCvr |-> cvrNumber]

\* the values lookupCompany(companyName, cvrNumber) can resolve to when the
\* registry serves the detail pages `pages`
lookupCompany(pages, companyName, cvrNumber) ==
    {LookupFound(d, companyName, cvrNumber) : d \in pages \cup {EmptyData}}
      \cup {LookupFailed(SearchError, companyName, cvrNumber)}

\* What the browser does during one lookup: whether searchCompany throws,
\* whether the search lands on a detail page, the number of result links
\* otherwise, whether following the first link throws, the detail page
\* shown, and the extraction step (0: none) at which reading the page throws
LookupEnvs ==
    [search : {"ok", "throws"}, detailPage : BOOLEAN, results : {0, 1},
     click : {"ok", "throws"}, page : RegistryPages, throwsAt : 0..7]

\* the fields extractCompanyData reads from the detail page, in its order
ExtractSteps ==
    <<{"cvrNumber"}, {"officialName"}, {"status"}, {"legalForm"}, {"startDate"},
      {"industryCode", "industryDescription"}, {"purpose"}>>

\* extractCompanyData(page, expectedName): its try block returns the empty
\* result when there is no result link, its catch block swallows whatever
\* is thrown and the result is returned as far as it was filled
extractCompanyData(env) ==
    IF ~env.detailPage /\ env.results = 0 THEN EmptyData
    ELSE IF ~env.detailPage /\ env.click = "throws" THEN EmptyData
    ELSE [f \in DOMAIN EmptyData |->
            IF f = "found" THEN TRUE
            ELSE LET step == CHOOSE k \in DOMAIN ExtractSteps : f \in ExtractSteps[k]
                 IN  IF env.throwsAt = 0 \/ step < env.throwsAt
                     THEN env.page[f] ELSE Null]

\* lookupCompany(companyName, cvrNumber) in the browser env
lookupCompanyIn(env, companyName, cvrNumber) ==
    IF env.search = "throws"
    THEN LookupFailed(SearchError, companyName, cvrNumber)
    ELSE LookupFound(extractCompanyData(env), companyName, cvrNumber)

----------------------------------------------------------------------------
(* Rate-limit guard: rateLimitState, RATE_LIMIT_THRESHOLDS, checkRateLimit, *)
(* alertRateLimit                                                           *)

MsPerMinute == 60000

RATE_LIMIT_THRESHOLDS ==
    [searchFailureLimit |-> 3,
     failureLimit |-> 3,
     pauseDuration |-> 300000 \div MsPerMinute,
     alertCooldown |-> 600000 \div MsPerMinute]

\* lastAlertTime: null
NoTime == -1

InitialRateLimitState ==
    [consecutiveSearchFailures |-> 0,
     consecutiveFailures |-> 0,
     lastAlertTime |-> NoTime,
     isPaused |-> FALSE]

\* a thresholds test that looks at the search failures only
IsRateLimited_SearchOnly(st) ==
    st.consecutiveSearchFailures >= RATE_LIMIT_THRESHOLDS.searchFailureLimit

\* the thresholds test of checkRateLimit
IsRateLimited(st) ==
    \/ st.consecutiveSearchFailures >= RATE_LIMIT_THRESHOLDS.searchFailureLimit
    \/ st.consecutiveFailures >= RATE_LIMIT_THRESHOLDS.failureLimit

\* checkRateLimit with a result without CVR number counted as a search
\* failure
checkRateLimit_NullCvrCounted(st, result, rawCvrData) ==
    IF ~result.success
    THEN LET s == [st EXCEPT !.consecutiveFailures = @ + 1,
                             !.consecutiveSearchFailures = 0]
         IN  [state |-> s, isRateLimited |-> IsRateLimited(s)]
    ELSE IF ~Truthy(Prop(PropObj(result, "cvr"), "number"))
    THEN LET s == [st EXCEPT !.consecutiveSearchFailures = @ + 1,
                             !.consecutiveFailures = 0]
         IN  [state |-> s, isRateLimited |-> IsRateLimited(s)]
    ELSE [state |-> [st EXCEPT !.consecutiveSearchFailures = 0,
                               !.consecutiveFailures = 0],
          isRateLimited |-> FALSE]

\* checkRateLimit(result, rawCvrData) on guard state st: the new state and
\* the returned isRateLimited
checkRateLimit(st, result, rawCvrData) ==
    IF ~result.success
    THEN LET s == [st EXCEPT !.consecutiveFailures = @ + 1,
                             !.consecutiveSearchFailures = 0]
         IN  [state |-> s, isRateLimited |-> IsRateLimited(s)]
    ELSE IF rawCvrData # UndefinedObj /\ Truthy(Prop(rawCvrData, "error"))
    THEN LET s == [st EXCEPT !.consecutiveSearchFailures = @ + 1,
                             !.consecutiveFailures = 0]
         IN  [state |-> s, isRateLimited |-> IsRateLimited(s)]
    ELSE IF ~Truthy(Prop(PropObj(result, "cvr"), "number"))
            /\ PropIs(rawCvrData, "success", FALSE)
    THEN [state |-> [st EXCEPT !.consecutiveSearchFailures = 0,
                               !.consecutiveFailures = 0],
          isRateLimited |-> FALSE]
    ELSE [state |-> [st EXCEPT !.consecutiveSearchFailures = 0,
                               !.consecutiveFailures = 0],
          isRateLimited |-> FALSE]

\* an alert without the cooldown test
alertRateLimit_NoCooldown(st, t) == [st EXCEPT !.lastAlertTime = t]

\* alertRateLimit(message) at time t: the new guard state
alertRateLimit(st, t) ==
    IF st.lastAlertTime # NoTime
       /\ (t - st.lastAlertTime) < RATE_LIMIT_THRESHOLDS.alertCooldown
    THEN st
    ELSE [st EXCEPT !.lastAlertTime = t]

----------------------------------------------------------------------------
(* State *)

VARIABLES
    companies,             \* table companies: id -> row
    verification_results,  \* table verification_results: a set of rows
    rateLimitState,        \* the module-level guard state of index.js
    now,                   \* wall clock, in minutes
    batches,               \* the running batchVerify / parallelBatchVerify calls
    tasks,                 \* the verifyCompany calls of each batch, by chunk slot
    world,                 \* what the registry, the web and the store can answer
    lastUpsert,            \* for the properties: per company, the row of the
                           \* upsert the store applied last
    call                   \* one call of a function of the engine on its own:
                           \* the function, its arguments and, once it has
                           \* returned, its value

vars == <<companies, verification_results, rateLimitState, now, batches, tasks, world, lastUpsert, call>>

\* no function is called on its own
NoCall == [fn |-> "none"]

BatchIds == {1, 2}

IdleTask ==
    [pc |-> "idle", companyId |-> "", company |-> UndefinedObj,
     cvrResult |-> UndefinedObj, webPresence |-> UndefinedObj,
     scoring |-> UndefinedObj, payload |-> UndefinedObj, insertError |-> FALSE,
     result |-> UndefinedObj, outcome |-> "none"]

\* verifyCompany(companyId) up to its first await
StartedTask(id) == [IdleTask EXCEPT !.pc = "fetch", !.companyId = id]

\* the value verifyCompany resolves to from its catch block
FailureResult(id, message) ==
    [success |-> FALSE, companyId |-> id, error |-> message]

\* outcome records, for the properties, how the call went: "failed" (it
\* resolved from the catch block), or the kind of its lookup result
DoneTask(t, result) ==
    [IdleTask EXCEPT !.pc = "done", !.companyId = t.companyId, !.result = result,
                     !.outcome = IF result.success THEN t.outcome ELSE "failed"]

LookupKind(r) ==
    IF r.success THEN "found"
    ELSE IF "error" \in DOMAIN r THEN "searchFailed"
    ELSE "notFound"

----------------------------------------------------------------------------
(* verifyCompany: one action per await *)

\* step 1 without the test of !company
FetchCompany_NoPresenceCheck(b, s) ==
    LET t == tasks[b][s] IN
    /\ t.pc = "fetch"
    /\ \E fetchError \in world.fetchErrors :
         IF fetchError
         THEN tasks' = [tasks EXCEPT ![b][s] =
                          DoneTask(t, FailureResult(t.companyId,
                                       <<"Company not found: ", t.companyId>>))]
         ELSE tasks' = [tasks EXCEPT
                 ![b][s].pc = "lookup",
                 ![b][s].company =
                     IF t.companyId \in DOMAIN companies THEN companies[t.companyId]
                     ELSE [name |-> Undefined, cvr |-> Undefined, founded |-> NoYear,
                           website |-> Undefined, verified |-> FALSE,
                           needs_review |-> FALSE]]
    /\ UNCHANGED <<companies, verification_results, rateLimitState, now, batches, world, lastUpsert, call>>

\* step 1: the row of companies arrives, or not
FetchCompany(b, s) ==
    LET t == tasks[b][s] IN
    /\ t.pc = "fetch"
    /\ \E fetchError \in world.fetchErrors :
         IF fetchError \/ t.companyId \notin DOMAIN companies
         THEN tasks' = [tasks EXCEPT ![b][s] =
                          DoneTask(t, FailureResult(t.companyId,
                                       <<"Company not found: ", t.companyId>>))]
         ELSE tasks' = [tasks EXCEPT ![b][s].pc = "lookup",
                                     ![b][s].company = companies[t.companyId]]
    /\ UNCHANGED <<companies, verification_results, rateLimitState, now, batches, world, lastUpsert, call>>

\* step 2: lookupCompany resolves (or rejects, when closing the browser in
\* its finally block throws)
LookupCompany(b, s) ==
    LET t == tasks[b][s] IN
    /\ t.pc = "lookup"
    /\ \/ \E r \in lookupCompany(world.pages, t.company.name, t.company.cvr) :
            tasks' = [tasks EXCEPT ![b][s].pc = "web", ![b][s].cvrResult = r,
                                   ![b][s].outcome = LookupKind(r)]
       \/ tasks' = [tasks EXCEPT ![b][s] =
                       DoneTask(t, FailureResult(t.companyId, <<"browser.close: ", "failed">>))]
    /\ UNCHANGED <<companies, verification_results, rateLimitState, now, batches, world, lastUpsert, call>>

\* /(\d{4})/ on the start date, then parseInt
FirstFourDigits(s) ==
    LET starts == {i \in 1..(Len(s) - 3) : \A k \in 0..3 : IsDigit(s[i + k])}
    IN  IF starts = {} THEN NoYear
        ELSE ParseDigits(SubSeq(s, CHOOSE i \in starts : \A k \in starts : i <= k,
                                   (CHOOSE i \in starts : \A k \in starts : i <= k) + 3))

\* step 4: the founding year
ResolveFoundedYear(company, cvrResult) ==
    IF Truthy(Prop(cvrResult, "startDate")) /\ company.founded = NoYear
    THEN FirstFourDigits(cvrResult.startDate)
    ELSE company.founded

\* step 6: verificationResult as it is sent to the store
VerificationPayload(id, cvrResult, scoring, webPresence) ==
    JsonStringify(
        [company_id |-> id,
         cvr_number |-> Prop(cvrResult, "cvrNumber"),
         cvr_status |-> Prop(cvrResult, "status"),
         industry_code |-> Prop(cvrResult, "industryCode"),
         industry_description |-> Prop(cvrResult, "industryDescription"),
         legal_form |-> Prop(cvrResult, "legalForm"),
         company_purpose |-> Prop(cvrResult, "purpose"),
         confidence_score |-> scoring.confidence,
         classification |-> scoring.classification,
         web_presence |-> webPresence,
         raw_cvr_data |-> JsonStringify(
             [success |-> cvrResult.success,
              error |-> Prop(cvrResult, "error"),
              cvrNumber |-> Prop(cvrResult, "cvrNumber")], {"error", "cvrNumber"}),
         needs_review |-> scoring.needsReview],
        {"cvr_number", "cvr_status", "industry_code", "industry_description",
         "legal_form", "company_purpose"})

\* steps 3 to 6 of a pipeline that gives up when the lookup did not succeed
CheckWebPresence_AbortOnFailedLookup(b, s) ==
    LET t == tasks[b][s] IN
    /\ t.pc = "web"
    /\ ~t.cvrResult.success
    /\ tasks' = [tasks EXCEPT ![b][s] =
                    DoneTask(t, FailureResult(t.companyId, <<"CVR lookup failed">>))]
    /\ UNCHANGED <<companies, verification_results, rateLimitState, now, batches, world, lastUpsert, call>>

\* steps 3 to 6: checkWebPresence resolves; the score and the row are
\* computed and the upsert is sent
CheckWebPresence(b, s) ==
    LET t == tasks[b][s] IN
    /\ t.pc = "web"
    /\ \E reachable \in {r \in world.probes : r => Truthy(t.company.website)},
          linkedIn \in world.probes :
         LET webPresence == [websiteReachable |-> reachable, linkedInFound |-> linkedIn]
             scoring == calculateConfidence(
                 [cvrStatus |-> Prop(t.cvrResult, "status"),
                  industryCode |-> Prop(t.cvrResult, "industryCode"),
                  foundedYear |-> ResolveFoundedYear(t.company, t.cvrResult),
                  webPresence |-> [websiteReachable |-> reachable,
                                   linkedInFound |-> linkedIn,
                                   socialMedia |-> 0,
                                   pressFound |-> FALSE],
                  searchedName |-> t.company.name,
                  foundName |-> Prop(t.cvrResult, "officialName")], CurrentYear)
         IN  tasks' = [tasks EXCEPT
                 ![b][s].pc = "upsert",
                 ![b][s].webPresence = webPresence,
                 ![b][s].scoring = [confidence |-> scoring.confidence,
                                    classification |-> scoring.classification,
                                    needsReview |-> scoring.needsReview],
                 ![b][s].payload = VerificationPayload(t.companyId, t.cvrResult,
                                                       scoring, webPresence)]
    /\ UNCHANGED <<companies, verification_results, rateLimitState, now, batches, world, lastUpsert, call>>

\* step 7 of a pipeline that throws when the store reports an error
UpsertResult_ThrowOnError(b, s) ==
    LET t == tasks[b][s] IN
    /\ t.pc = "upsert"
    /\ \E insertError \in world.storeErrors :
         IF insertError
         THEN /\ UNCHANGED <<verification_results, lastUpsert>>
              /\ tasks' = [tasks EXCEPT ![b][s] =
                     DoneTask(t, FailureResult(t.companyId, <<"insert failed">>))]
         ELSE /\ verification_results' = UpsertRow(verification_results, t.payload)
              /\ lastUpsert' = [lastUpsert EXCEPT ![t.companyId] = t.payload]
              /\ tasks' = [tasks EXCEPT ![b][s].pc = "update"]
    /\ UNCHANGED <<companies, rateLimitState, now, batches, world, call>>

\* a pipeline that goes on to the flag update without sending the upsert
UpsertResult_NotSent(b, s) ==
    LET t == tasks[b][s] IN
    /\ t.pc = "upsert"
    /\ tasks' = [tasks EXCEPT ![b][s].pc = "update"]
    /\ UNCHANGED <<companies, verification_results, rateLimitState, now, batches, world, lastUpsert, call>>

\* step 7: the store applies the upsert, or reports an error (a warning);
\* insertError: whether it reported one
UpsertResult(b, s) ==
    LET t == tasks[b][s] IN
    /\ t.pc = "upsert"
    /\ \E insertError \in world.storeErrors :
         /\ IF insertError
            THEN UNCHANGED <<verification_results, lastUpsert>>
            ELSE /\ verification_results' = UpsertRow(verification_results, t.payload)
                 /\ lastUpsert' = [lastUpsert EXCEPT ![t.companyId] = t.payload]
         /\ tasks' = [tasks EXCEPT ![b][s].pc = "update",
                                   ![b][s].insertError = insertError]
    /\ UNCHANGED <<companies, rateLimitState, now, batches, world, call>>

\* a companyUpdate whose verified flag follows the score
CompanyUpdate_VerifiedByScore(company, cvrResult, scoring) ==
    JsonStringify(
        [cvr |-> IF Truthy(Prop(cvrResult, "cvrNumber"))
                 THEN cvrResult.cvrNumber ELSE company.cvr,
         verified |-> (scoring.confidence >= 70),
         needs_review |-> scoring.needsReview], {"cvr"})

\* companyUpdate as it is sent to the store
CompanyUpdate(company, cvrResult, scoring) ==
    JsonStringify(
        [cvr |-> IF Truthy(Prop(cvrResult, "cvrNumber"))
                 THEN cvrResult.cvrNumber ELSE company.cvr,
         verified |-> TRUE,
         needs_review |-> scoring.needsReview], {"cvr"})

\* the value verifyCompany resolves to at the end of its try block
SuccessResult(t) ==
    [success |-> TRUE,
     companyId |-> t.companyId,
     confidence |-> t.scoring.confidence,
     classification |-> t.scoring.classification,
     needsReview |-> t.scoring.needsReview,
     cvr |-> [number |-> Prop(t.cvrResult, "cvrNumber"),
              status |-> Prop(t.cvrResult, "status"),
              industryCode |-> Prop(t.cvrResult, "industryCode"),
              industryDescription |-> Prop(t.cvrResult, "industryDescription"),
              legalForm |-> Prop(t.cvrResult, "legalForm")],
     webPresence |-> t.webPresence]

\* step 8: the store applies the flag update, or reports an error (a
\* warning); verifyCompany returns
UpdateCompany(b, s) ==
    LET t == tasks[b][s] IN
    /\ t.pc = "update"
    /\ \E updateError \in world.storeErrors :
         companies' =
             IF updateError THEN companies
             ELSE UpdateRow(companies, t.companyId,
                            CompanyUpdate(t.company, t.cvrResult, t.scoring))
    /\ tasks' = [tasks EXCEPT ![b][s] = DoneTask(t, SuccessResult(t))]
    /\ UNCHANGED <<verification_results, rateLimitState, now, batches, world, lastUpsert, call>>

----------------------------------------------------------------------------
(* Batch controllers: batchVerify and parallelBatchVerify                  *)

Slots(b) == DOMAIN tasks[b]

\* a call batchVerify(ids) or parallelBatchVerify(ids, concurrency) that has
\* not run yet.  i: the 1-based index of the current item (sequential) or of
\* the first item of the current chunk (parallel); chunk, j: the settled
\* results of the chunk and the one being processed.  log, pausedAfter and
\* resumed record, for the properties, the outcome of every processed item
\* with the two failure counters before and after its guard evaluation, the
\* number of items processed before each pause and the two failure
\* counters as each pause left them.
NewBatch(mode, ids, concurrency) ==
    [mode |-> mode, ids |-> ids, concurrency |-> concurrency,
     pc |-> IF mode = "none" THEN "finished" ELSE "ready",
     i |-> 0, j |-> 0, chunk |-> <<>>, wakeAt |-> 0,
     results |-> [total |-> Len(ids), successful |-> 0, failed |-> 0, rateLimitPauses |-> 0],
     log |-> <<>>, pausedAfter |-> <<>>, resumed |-> <<>>]

Tally(results, result) ==
    IF result.success THEN [results EXCEPT !.successful = @ + 1]
    ELSE [results EXCEPT !.failed = @ + 1]

Counters(st) ==
    [consecutiveSearchFailures |-> st.consecutiveSearchFailures,
     consecutiveFailures |-> st.consecutiveFailures]

\* a reset after the cooldown that leaves consecutiveFailures as it is
SeqResetAfterPause_NullCvrOnly(st) == SetProp(st, "consecutiveNullCvr", 0)

\* the statements after a cooldown sleep of batchVerify
SeqResetAfterPause(st) ==
    [SetProp(st, "consecutiveNullCvr", 0) EXCEPT !.consecutiveFailures = 0]

\* the reset of parallelBatchVerify without its second assignment
ParResetAfterPause_SearchOnly(st) ==
    [st EXCEPT !.consecutiveSearchFailures = 0]

\* the statements after a cooldown sleep of parallelBatchVerify
ParResetAfterPause(st) ==
    [st EXCEPT !.consecutiveSearchFailures = 0, !.consecutiveFailures = 0]

\* batchVerify: the loop head; the next verifyCompany is called
SeqLaunch(b) ==
    LET B == batches[b] IN
    /\ B.mode = "seq"
    /\ B.pc \in {"ready", "delay"}
    /\ IF B.i + 1 > Len(B.ids)
       THEN /\ batches' = [batches EXCEPT ![b].pc = "finished"]
            /\ UNCHANGED tasks
       ELSE /\ batches' = [batches EXCEPT ![b].pc = "await", ![b].i = B.i + 1]
            /\ tasks' = [tasks EXCEPT ![b][1] = StartedTask(B.ids[B.i + 1])]
    /\ UNCHANGED <<companies, verification_results, rateLimitState, now, world, lastUpsert, call>>

\* batchVerify: verifyCompany has resolved; tally, guard, pause or go on
SeqItemDone(b) ==
    LET B == batches[b]
        t == tasks[b][1]
        check == checkRateLimit(rateLimitState, t.result, UndefinedObj)
        tallied == [B EXCEPT !.results = Tally(B.results, t.result),
                             !.log = Append(@, [companyId |-> t.companyId,
                                                outcome |-> t.outcome,
                                                before |-> Counters(rateLimitState),
                                                after |-> Counters(check.state)])]
    IN
    /\ B.mode = "seq"
    /\ B.pc = "await"
    /\ t.pc = "done"
    /\ IF check.isRateLimited
       THEN /\ rateLimitState' = alertRateLimit(check.state, now)
            /\ batches' = [batches EXCEPT ![b] =
                   [tallied EXCEPT !.results.rateLimitPauses = @ + 1,
                                   !.pc = "paused",
                                   !.wakeAt = now + RATE_LIMIT_THRESHOLDS.pauseDuration,
                                   !.pausedAfter = Append(@, Len(tallied.log))]]
       ELSE /\ rateLimitState' = check.state
            /\ batches' = [batches EXCEPT ![b] =
                   [tallied EXCEPT !.pc = IF B.i < Len(B.ids) THEN "delay" ELSE "finished"]]
    /\ tasks' = [tasks EXCEPT ![b][1] = IdleTask]
    /\ UNCHANGED <<companies, verification_results, now, world, lastUpsert, call>>

\* a resumption that runs the item that triggered the pause again
SeqResume_RetryItem(b) ==
    LET B == batches[b] IN
    /\ B.mode = "seq"
    /\ B.pc = "paused"
    /\ now >= B.wakeAt
    /\ rateLimitState' = SeqResetAfterPause(rateLimitState)
    /\ batches' = [batches EXCEPT
           ![b].pc = "delay",
           ![b].i = B.i - 1,
           ![b].resumed = Append(@, Counters(SeqResetAfterPause(rateLimitState)))]
    /\ UNCHANGED <<companies, verification_results, now, tasks, world, lastUpsert, call>>

\* batchVerify: the cooldown has elapsed
SeqResume(b) ==
    LET B == batches[b] IN
    /\ B.mode = "seq"
    /\ B.pc = "paused"
    /\ now >= B.wakeAt
    /\ rateLimitState' = SeqResetAfterPause(rateLimitState)
    /\ batches' = [batches EXCEPT
           ![b].pc = IF B.i < Len(B.ids) THEN "delay" ELSE "finished",
           ![b].resumed = Append(@, Counters(SeqResetAfterPause(rateLimitState)))]
    /\ UNCHANGED <<companies, verification_results, now, tasks, world, lastUpsert, call>>

\* a slice that is one id too long
ChunkSlice_OneTooMany(ids, first, concurrency) ==
    SubSeq(ids, first, Min(first + concurrency, Len(ids)))

\* companyIds.slice(i, i + concurrency), for the 1-based index first = i + 1
ChunkSlice(ids, first, concurrency) ==
    SubSeq(ids, first, Min(first + concurrency - 1, Len(ids)))

\* parallelBatchVerify: the loop head; the verifyCompany calls of the next
\* chunk are made
ParLaunch(b) ==
    LET B == batches[b]
        first == IF B.pc = "ready" THEN 1 ELSE B.i + B.concurrency
        chunk == ChunkSlice(B.ids, first, B.concurrency)
    IN
    /\ B.mode = "par"
    /\ B.pc \in {"ready", "delay"}
    /\ IF first > Len(B.ids)
       THEN /\ batches' = [batches EXCEPT ![b].pc = "finished"]
            /\ UNCHANGED tasks
       ELSE /\ batches' = [batches EXCEPT ![b].pc = "await", ![b].i = first]
            /\ tasks' = [tasks EXCEPT ![b] =
                   [s \in Slots(b) |->
                       IF s <= Len(chunk) THEN StartedTask(chunk[s]) ELSE IdleTask]]
    /\ UNCHANGED <<companies, verification_results, rateLimitState, now, world, lastUpsert, call>>

\* a loop over chunkResults that counts a pause only when its alert is
\* logged
RECURSIVE ProcessChunk_PauseCountedOnAlert(_, _, _, _)
ProcessChunk_PauseCountedOnAlert(B, st, j, time) ==
    IF j > Len(B.chunk)
    THEN [batch |-> [B EXCEPT !.chunk = <<>>, !.j = 0,
                              !.pc = IF B.i + B.concurrency <= Len(B.ids)
                                     THEN "delay" ELSE "finished"],
          state |-> st]
    ELSE LET entry == B.chunk[j]
             check == checkRateLimit(st, entry.result, PropObj(entry.result, "cvr"))
             tallied == [B EXCEPT !.results = Tally(B.results, entry.result),
                                  !.log = Append(@, [companyId |-> entry.result.companyId,
                                                     outcome |-> entry.outcome,
                                                     before |-> Counters(st),
                                                     after |-> Counters(check.state)])]
             alerted == alertRateLimit(check.state, time)
         IN  IF check.isRateLimited
             THEN [batch |-> [tallied EXCEPT
                                 !.results.rateLimitPauses =
                                     IF alerted # check.state THEN @ + 1 ELSE @,
                                 !.pc = "paused", !.j = j,
                                 !.wakeAt = time + RATE_LIMIT_THRESHOLDS.pauseDuration,
                                 !.pausedAfter = Append(@, Len(tallied.log))],
                   state |-> alerted]
             ELSE ProcessChunk_PauseCountedOnAlert(tallied, check.state, j + 1, time)

\* the for loop over chunkResults from result j on, up to the end of the
\* chunk or to the first pause: the batch record and the guard state after it
RECURSIVE ProcessChunk(_, _, _, _)
ProcessChunk(B, st, j, time) ==
    IF j > Len(B.chunk)
    THEN [batch |-> [B EXCEPT !.chunk = <<>>, !.j = 0,
                              !.pc = IF B.i + B.concurrency <= Len(B.ids)
                                     THEN "delay" ELSE "finished"],
          state |-> st]
    ELSE LET entry == B.chunk[j]
             check == checkRateLimit(st, entry.result, PropObj(entry.result, "cvr"))
             tallied == [B EXCEPT !.results = Tally(B.results, entry.result),
                                  !.log = Append(@, [companyId |-> entry.result.companyId,
                                                     outcome |-> entry.outcome,
                                                     before |-> Counters(st),
                                                     after |-> Counters(check.state)])]
         IN  IF check.isRateLimited
             THEN [batch |-> [tallied EXCEPT
                                 !.results.rateLimitPauses = @ + 1,
                                 !.pc = "paused", !.j = j,
                                 !.wakeAt = time + RATE_LIMIT_THRESHOLDS.pauseDuration,
                                 !.pausedAfter = Append(@, Len(tallied.log))],
                   state |-> alertRateLimit(check.state, time)]
             ELSE ProcessChunk(tallied, check.state, j + 1, time)

\* parallelBatchVerify: Promise.allSettled has resolved
ParChunkSettled(b) ==
    LET B == batches[b]
        started == {s \in Slots(b) : tasks[b][s].pc # "idle"}
        chunkResults == [s \in 1..Cardinality(started) |->
                            [result |-> tasks[b][s].result, outcome |-> tasks[b][s].outcome]]
        after == ProcessChunk([B EXCEPT !.chunk = chunkResults], rateLimitState, 1, now)
    IN
    /\ B.mode = "par"
    /\ B.pc = "await"
    /\ \A s \in started : tasks[b][s].pc = "done"
    /\ batches' = [batches EXCEPT ![b] = after.batch]
    /\ rateLimitState' = after.state
    /\ tasks' = [tasks EXCEPT ![b] = [s \in Slots(b) |-> IdleTask]]
    /\ UNCHANGED <<companies, verification_results, now, world, lastUpsert, call>>

\* parallelBatchVerify: the cooldown has elapsed
ParResume(b) ==
    LET B == batches[b]
        reset == ParResetAfterPause(rateLimitState)
        after == ProcessChunk([B EXCEPT !.resumed = Append(@, Counters(reset))],
                              reset, B.j + 1, now)
    IN
    /\ B.mode = "par"
    /\ B.pc = "paused"
    /\ now >= B.wakeAt
    /\ batches' = [batches EXCEPT ![b] = after.batch]
    /\ rateLimitState' = after.state
    /\ UNCHANGED <<companies, verification_results, now, tasks, world, lastUpsert, call>>

\* a minute passes
Tick ==
    /\ now < MaxNow
    /\ now' = now + 1
    /\ UNCHANGED <<companies, verification_results, rateLimitState, batches, tasks, world, lastUpsert, call>>

----------------------------------------------------------------------------
(* Specifications *)

\* every answer the environment can give
FullWorld ==
    [pages |-> RegistryPages, probes |-> BOOLEAN,
     storeErrors |-> BOOLEAN, fetchErrors |-> BOOLEAN]

\* one registry page, no web presence, a store that does not fail
PlainWorld ==
    [pages |-> {p \in RegistryPages : p.cvrNumber = <<"1","1">>}, probes |-> {FALSE},
     storeErrors |-> {FALSE}, fetchErrors |-> {FALSE}]

NoBatch == NewBatch("none", <<>>, 1)

InitWith(w, b1, b2) ==
    /\ companies = InitialCompanies
    /\ verification_results = {}
    /\ rateLimitState = InitialRateLimitState
    /\ now = 0
    /\ world = w
    /\ lastUpsert = [id \in CompanyIds |-> UndefinedObj]
    /\ call = NoCall
    /\ batches = [b \in BatchIds |-> IF b = 1 THEN b1 ELSE b2]
    /\ tasks = [b \in BatchIds |->
                  [s \in 1..Max(1, Len(IF b = 1 THEN b1.ids ELSE b2.ids)) |-> IdleTask]]

\* one sequential batch of five companies
SeqIds == <<"a", "b", "a", "b", "a">>

InitSeq == InitWith(PlainWorld, NewBatch("seq", SeqIds, 1), NoBatch)

NextSeq ==
    \/ SeqLaunch(1) \/ SeqItemDone(1) \/ SeqResume(1)
    \/ \E s \in Slots(1) : FetchCompany(1, s)
    \/ \E s \in Slots(1) : LookupCompany(1, s)
    \/ \E s \in Slots(1) : CheckWebPresence(1, s)
    \/ \E s \in Slots(1) : UpsertResult(1, s)
    \/ \E s \in Slots(1) : UpdateCompany(1, s)
    \/ Tick

SpecSeq == InitSeq /\ [][NextSeq]_vars

\* one parallel batch, two workers
ParIds == <<"a", "x", "b", "a", "b">>

InitPar == InitWith(PlainWorld, NewBatch("par", ParIds, 2), NoBatch)

NextPar ==
    \/ ParLaunch(1) \/ ParChunkSettled(1) \/ ParResume(1)
    \/ \E s \in Slots(1) : FetchCompany(1, s)
    \/ \E s \in Slots(1) : LookupCompany(1, s)
    \/ \E s \in Slots(1) : CheckWebPresence(1, s)
    \/ \E s \in Slots(1) : UpsertResult(1, s)
    \/ \E s \in Slots(1) : UpdateCompany(1, s)
    \/ Tick

SpecPar == InitPar /\ [][NextPar]_vars

\* two batches at once, the first sequential, the second parallel
Init ==
    InitWith(PlainWorld, NewBatch("seq", <<"x", "x", "x", "a">>, 1),
             NewBatch("par", <<"x", "x", "b">>, 2))

Next ==
    \/ \E b \in BatchIds : SeqLaunch(b)
    \/ \E b \in BatchIds : SeqItemDone(b)
    \/ \E b \in BatchIds : SeqResume(b)
    \/ \E b \in BatchIds : ParLaunch(b)
    \/ \E b \in BatchIds : ParChunkSettled(b)
    \/ \E b \in BatchIds : ParResume(b)
    \/ \E b \in BatchIds : \E s \in Slots(b) : FetchCompany(b, s)
    \/ \E b \in BatchIds : \E s \in Slots(b) : LookupCompany(b, s)
    \/ \E b \in BatchIds : \E s \in Slots(b) : CheckWebPresence(b, s)
    \/ \E b \in BatchIds : \E s \in Slots(b) : UpsertResult(b, s)
    \/ \E b \in BatchIds : \E s \in Slots(b) : UpdateCompany(b, s)
    \/ Tick

Spec == Init /\ [][Next]_vars

\* one parallel batch that verifies a company more than once, with every
\* answer the registry, the web and the store can give
StoreIds == <<"a", "a", "x">>

InitStore == InitWith(FullWorld, NewBatch("par", StoreIds, 2), NoBatch)

SpecStore == InitStore /\ [][NextPar]_vars

\* one batch on its own, sequential or parallel, in which verifyCompany
\* fails six times in a row
FailIds == <<"a", "x", "x", "x", "x", "x", "x">>

InitFail ==
    \/ InitWith(PlainWorld, NewBatch("seq", FailIds, 1), NoBatch)
    \/ InitWith(PlainWorld, NewBatch("par", FailIds, 2), NoBatch)

SpecFail == InitFail /\ [][Next]_vars

\* the state in which nothing but one function call happens
QuietWith(c) ==
    /\ companies = InitialCompanies
    /\ verification_results = {}
    /\ rateLimitState = InitialRateLimitState
    /\ now = 0
    /\ world = FullWorld
    /\ lastUpsert = [id \in CompanyIds |-> UndefinedObj]
    /\ batches = [b \in BatchIds |-> NoBatch]
    /\ tasks = [b \in BatchIds |-> [s \in {1} |-> IdleTask]]
    /\ call = c

\* the arguments of calculateConfidence
ScoreStatuses ==
    {Null, <<"N","o","r","m","a","l">>, <<"O","p","l","ø","s","t">>,
     <<"U","n","d","e","r"," ","k","o","n","k","u","r","s">>, <<"U","k","e","n","d","t">>}

ScoreCodes ==
    {Null, <<"6","2","0","1","0","0">>, <<"6","4","2","0","2","0">>,
     <<"5","6","1","0","1","0">>, <<"9","9","9","9","9","9">>, <<"6","4","9","9","0","0">>}

ScoreFoundedYears == {NoYear, 1990, 2010, 2020, 2030}

ScoreWebPresences ==
    {UndefinedObj} \cup
    [websiteReachable : BOOLEAN, linkedInFound : BOOLEAN,
     socialMedia : 0..2, pressFound : BOOLEAN]

\* searchedName and foundName
ScoreNames ==
    {<<PleoName, PleoName>>, <<PleoName, <<"P","l","e","o"," ","A","p","S">>>>,
     <<PleoName, <<"N","o","r","d"," ","H","o","l","d","i","n","g">>>>,
     <<PleoName, Null>>, <<Undefined, Undefined>>}

\* new Date().getFullYear() at the time of the call
ScoreYears ==
    {CurrentYear - 3, CurrentYear, CurrentYear + 5, CurrentYear + 10, CurrentYear + 24}

\* calculateConfidence on its own: one call
InitScore ==
    \E c \in {[fn |-> "calculateConfidence",
                input |-> [cvrStatus |-> st, industryCode |-> code, foundedYear |-> fy,
                           webPresence |-> wp, searchedName |-> nm[1], foundName |-> nm[2]],
                currentYear |-> y,
                value |-> UndefinedObj] :
                   st \in ScoreStatuses, code \in ScoreCodes, fy \in ScoreFoundedYears,
                   wp \in ScoreWebPresences, nm \in ScoreNames, y \in ScoreYears} :
        QuietWith(c)

CalculateConfidenceReturns ==
    /\ call.fn = "calculateConfidence"
    /\ call.value = UndefinedObj
    /\ call' = [call EXCEPT !.value = calculateConfidence(call.input, call.currentYear)]
    /\ UNCHANGED <<companies, verification_results, rateLimitState, now, batches, tasks, world, lastUpsert>>

SpecScore == InitScore /\ [][CalculateConfidenceReturns]_vars

\* the industry codes of the source's own scenarios and of the keys that
\* the holding table shares with the startup table
ScenarioCodes ==
    {<<"6","4","9","9">>, <<"6","4","9","9","0","0">>, <<"6","2","0","1","0","0">>,
     <<"6","4","2","0","2","0">>, <<"5","6","1","0","1","0">>, <<"7","2","1","9","0","0">>,
     <<"4","7","1","1","1","1">>, <<"7","0","1","0">>, <<"7","0","2","1">>,
     <<"6","4","2","0">>, <<"6","4","1","9">>}

\* the arguments of classifyIndustryCode: no code, the empty code, every
\* code of up to MaxCodeLen digits and the scenario codes
ClassifyCodes ==
    {Null} \cup ScenarioCodes
           \cup UNION {[1..n -> Range(Digits)] : n \in 0..MaxCodeLen}

\* classifyIndustryCode on its own: one call
InitClassify ==
    \E c \in {[fn |-> "classifyIndustryCode", input |-> code, value |-> UndefinedObj] :
                   code \in ClassifyCodes} :
        QuietWith(c)

ClassifyIndustryCodeReturns ==
    /\ call.fn = "classifyIndustryCode"
    /\ call.value = UndefinedObj
    /\ call' = [call EXCEPT !.value = classifyIndustryCode(call.input)]
    /\ UNCHANGED <<companies, verification_results, rateLimitState, now, batches, tasks, world, lastUpsert>>

SpecClassify == InitClassify /\ [][ClassifyIndustryCodeReturns]_vars

\* alertRateLimit on its own: calls at any minute of the clock.  alerts
\* holds the times at which an alert was logged, trigger the time of the
\* last call, the lastAlertTime it found and whether it logged an alert.
InitAlert ==
    QuietWith([fn |-> "alertRateLimit", alerts |-> <<>>, trigger |-> UndefinedObj])

AlertRateLimitCalled ==
    LET after == alertRateLimit(rateLimitState, now)
        emitted == after # rateLimitState
    IN
    /\ call.fn = "alertRateLimit"
    /\ rateLimitState' = after
    /\ call' = [call EXCEPT
           !.alerts = IF emitted THEN Append(@, now) ELSE @,
           !.trigger = [time |-> now, before |-> rateLimitState.lastAlertTime,
                        emitted |-> emitted]]
    /\ UNCHANGED <<companies, verification_results, now, batches, tasks, world, lastUpsert>>

\* Date.now() a minute later
AlertTick ==
    /\ call.fn = "alertRateLimit"
    /\ now < MaxAlertNow
    /\ now' = now + 1
    /\ UNCHANGED <<companies, verification_results, rateLimitState, batches, tasks, world, lastUpsert, call>>

SpecAlert == InitAlert /\ [][AlertRateLimitCalled \/ AlertTick]_vars

\* what checkWebsite, checkLinkedIn and checkSocialMedia can resolve to
WebsiteResults ==
    {[reachable |-> FALSE]} \cup {[reachable |-> TRUE, hasHttps |-> h] : h \in BOOLEAN}

LinkedInResults ==
    {[found |-> FALSE]} \cup {[found |-> TRUE, confidence |-> c] : c \in {"medium", "high"}}

SocialResults == {[count |-> n] : n \in 0..MaxSocial}

\* checkWebPresence on its own, once its three probes have resolved
InitPresence ==
    \E c \in {[fn |-> "checkWebPresence",
                input |-> [website |-> w, linkedin |-> l, social |-> s],
                value |-> UndefinedObj] :
                   w \in WebsiteResults, l \in LinkedInResults, s \in SocialResults} :
        QuietWith(c)

CheckWebPresenceReturns ==
    /\ call.fn = "checkWebPresence"
    /\ call.value = UndefinedObj
    /\ call' = [call EXCEPT !.value = checkWebPresence(call.input.website,
                                                       call.input.linkedin,
                                                       call.input.social)]
    /\ UNCHANGED <<companies, verification_results, rateLimitState, now, batches, tasks, world, lastUpsert>>

SpecPresence == InitPresence /\ [][CheckWebPresenceReturns]_vars

\* lookupCompany on its own: one call, in every browser env
InitLookup ==
    \E c \in {[fn |-> "lookupCompany",
                input |-> [env |-> e, companyName |-> n, cvrNumber |-> cvr],
                value |-> UndefinedObj] :
                   e \in LookupEnvs, n \in {PleoName, NovoName},
                   cvr \in {Null, <<"1","1">>}} :
        QuietWith(c)

LookupCompanyReturns ==
    /\ call.fn = "lookupCompany"
    /\ call.value = UndefinedObj
    /\ call' = [call EXCEPT !.value = lookupCompanyIn(call.input.env,
                                         call.input.companyName, call.input.cvrNumber)]
    /\ UNCHANGED <<companies, verification_results, rateLimitState, now, batches, tasks, world, lastUpsert>>

SpecLookup == InitLookup /\ [][LookupCompanyReturns]_vars

----------------------------------------------------------------------------
(* Properties *)


\* the outcomes of items from..to of batch b are all in the set kinds
OutcomesIn(b, from, to, kinds) ==
    /\ to <= Len(batches[b].log)
    /\ \A k \in from..to : batches[b].log[k].outcome \in kinds

Clean == {"found", "notFound"}

\* C1: a sequential batch of five ids whose first three items end in a
\* search failure pauses exactly once, after item 3 and before item 4 is
\* started, and reports rateLimitPauses = 1 when items 4 and 5 succeed.
C1_SequentialPauseAfterThreeSearchFailures ==
    LET B == batches[1] IN
    (B.mode = "seq" /\ Len(B.ids) = 5 /\ OutcomesIn(1, 1, 3, {"searchFailed"}))
    => /\ (B.i >= 4 \/ B.pc = "paused") => (B.pausedAfter # <<>> /\ B.pausedAfter[1] = 3)
       /\ (B.pc = "finished" /\ OutcomesIn(1, 4, 5, {"found"}))
             => (B.results.rateLimitPauses = 1 /\ B.pausedAfter = <<3>>)

\* C2: in a batch that runs alone, a trigger is reported at every third
\* consecutive search failure (the one that completes a run of three), and
\* at no search failure that is the first or second of its run.
C2_TriggerOnThirdSearchFailure ==
    \A b \in BatchIds :
        \A k \in 1..Len(batches[b].log) :
            batches[b].log[k].outcome = "searchFailed"
            => LET run == CHOOSE n \in 1..k :
                              /\ OutcomesIn(b, k - n + 1, k, {"searchFailed"})
                              /\ (n = k \/ batches[b].log[k - n].outcome # "searchFailed")
               IN  (k \in Range(batches[b].pausedAfter)) <=> (run = 3)

\* C3: once an item whose lookup reported a search error has been
\* evaluated by the guard of a batch that runs alone, and no pause has reset
\* the counters since, consecutiveSearchFailures is at least 1 and
\* consecutiveFailures is 0.
C3_SearchFailureIsCounted ==
    \A b \in BatchIds :
        LET B == batches[b] IN
        (/\ B.mode # "none"
         /\ B.pc \in {"delay", "finished", "paused"}
         /\ B.log # <<>>
         /\ B.log[Len(B.log)].outcome = "searchFailed"
         /\ Len(B.resumed) = Len(B.pausedAfter)
         /\ Len(B.log) \notin Range(B.pausedAfter))
        => /\ rateLimitState.consecutiveSearchFailures >= 1
           /\ rateLimitState.consecutiveFailures = 0

\* C4: a batch all of whose outcomes so far are successful or cleanly
\* not-found lookups has never paused; and after the guard has evaluated a
\* clean not-found both counters are zero and no pause follows that item.
C4_NotFoundIsNoRateLimitSignal ==
    \A b \in BatchIds :
        LET B == batches[b] IN
        /\ OutcomesIn(b, 1, Len(B.log), Clean)
             => (B.pausedAfter = <<>> /\ B.results.rateLimitPauses = 0 /\ B.pc # "paused")
        /\ (B.log # <<>> /\ B.log[Len(B.log)].outcome = "notFound")
             => /\ rateLimitState.consecutiveSearchFailures = 0
                /\ rateLimitState.consecutiveFailures = 0
                /\ Len(B.log) \notin Range(B.pausedAfter)

\* a finished batch of five clean outcomes, the last three of them not-found
C4_Witness ==
    /\ batches[1].pc = "finished"
    /\ Len(batches[1].log) = 5
    /\ OutcomesIn(1, 1, 5, Clean)
    /\ OutcomesIn(1, 3, 5, {"notFound"})
    /\ batches[1].results.rateLimitPauses = 0

\* C5: a batch run pauses only on three failures of its own in a row: the
\* outcomes another run observes never count towards its trigger.
C5_GuardStateIsPerRun ==
    \A b \in BatchIds :
        \A k \in Range(batches[b].pausedAfter) :
            k >= 3 /\ OutcomesIn(b, k - 2, k, {"failed", "searchFailed"})

\* C6: a paused batch (sequential or parallel) starts nothing and does
\* nothing until five minutes after the trigger; at the moment it resumes
\* both failure counters are zero; it then goes on with the next
\* unprocessed item and finishes only when every item has been processed.
C6_PauseThenResume ==
    /\ [](\A b \in BatchIds :
            /\ batches[b].pc = "paused" =>
                   \A s \in Slots(b) : tasks[b][s].pc \in {"idle"}
            /\ \A k \in DOMAIN batches[b].resumed :
                   /\ batches[b].resumed[k].consecutiveSearchFailures = 0
                   /\ batches[b].resumed[k].consecutiveFailures = 0
            /\ batches[b].pc = "finished" => Len(batches[b].log) = Len(batches[b].ids))
    /\ [][\A b \in BatchIds :
            LET B == batches[b]
                A == batches'[b]
            IN  /\ Len(A.pausedAfter) > Len(B.pausedAfter) =>
                       A.pc = "paused" /\ A.wakeAt = now + 5
                /\ (B.pc = "paused" /\ Len(A.resumed) = Len(B.resumed)) =>
                       A = B /\ tasks'[b] = tasks[b]
                /\ Len(A.resumed) > Len(B.resumed) =>
                       /\ B.pc = "paused"
                       /\ now >= B.wakeAt
                       /\ Len(A.resumed) = Len(B.resumed) + 1
                       /\ SubSeq(A.log, 1, Len(B.log)) = B.log
                /\ (B.pc # "await" /\ A.pc = "await") =>
                       /\ A.i = Len(B.log) + 1
                       /\ tasks'[b][1].pc = "fetch"
                       /\ tasks'[b][1].companyId = B.ids[Len(B.log) + 1]]_vars

\* both batches have paused, resumed and processed every item
C6_Witness ==
    /\ batches[1].mode = "seq" /\ batches[2].mode = "par"
    /\ \A b \in BatchIds :
          /\ batches[b].resumed # <<>>
          /\ batches[b].pc = "finished"
          /\ batches[b].pausedAfter[1] < Len(batches[b].ids)

\* C7: a parallel batch with concurrency N works through consecutive chunks
\* of at most N ids: the calls in flight are at most N and are those of the
\* current chunk, a chunk is launched only when every earlier item has been
\* processed, and the guard sees a chunk's outcomes (and a pause is taken)
\* only once every call of the chunk has settled.
C7_ChunkedParallelism ==
    /\ [](\A b \in BatchIds :
            LET B == batches[b]
                started == {s \in Slots(b) : tasks[b][s].pc # "idle"}
                inFlight == {s \in started : tasks[b][s].pc # "done"}
            IN  B.mode = "par" =>
                /\ Cardinality(inFlight) <= B.concurrency
                /\ Cardinality(started) <= B.concurrency
                /\ started # {} =>
                      /\ B.pc = "await"
                      /\ Len(B.log) = B.i - 1
                      /\ (B.i - 1) % B.concurrency = 0
                      /\ \A s \in started :
                            /\ B.i + s - 1 <= Len(B.ids)
                            /\ tasks[b][s].companyId = B.ids[B.i + s - 1])
    /\ [][\A b \in BatchIds :
            LET B == batches[b]
                A == batches'[b]
                started == {s \in Slots(b) : tasks[b][s].pc # "idle"}
            IN  B.mode = "par" =>
                /\ (B.pc = "await" /\ (A.log # B.log \/ A.pc # B.pc
                                        \/ A.pausedAfter # B.pausedAfter)) =>
                       \A s \in started : tasks[b][s].pc = "done"
                /\ (B.pc = "await" /\ rateLimitState' # rateLimitState) =>
                       \A s \in started : tasks[b][s].pc = "done"
                /\ (B.pc # "await" /\ A.pc = "await") =>
                       /\ Len(B.log) = A.i - 1
                       /\ \A s \in Slots(b) : tasks[b][s].pc = "idle"]_vars

\* the second chunk is in flight: one of its two calls has settled, the
\* other has not
C7_Witness ==
    /\ batches[1].mode = "par" /\ batches[1].concurrency = 2
    /\ batches[1].i = 3
    /\ tasks[1][1].pc = "done"
    /\ tasks[1][2].pc \in {"lookup", "web", "upsert", "update"}

\* C8: the store holds at most one outcome per company id, and that row is
\* entirely the data of the verification whose upsert was applied last: it
\* is the row that verification alone would have stored.
C8_LastUpsertFullyOverwrites ==
    \A id \in CompanyIds :
        LET rows == {r \in verification_results : r.company_id = id} IN
        /\ Cardinality(rows) <= 1
        /\ lastUpsert[id] # UndefinedObj => rows = {InsertedRow(lastUpsert[id])}

\* C9: verifyCompany of an id that is not in the store ends in the failure
\* result that names the id, straight from its first step: no lookup, no
\* web check, no upsert, no flag update, and the store is left as it was.
C9_MissingCompanyFailsWithoutEffects ==
    /\ [](\A b \in BatchIds : \A s \in Slots(b) :
            LET t == tasks[b][s] IN
            (t.pc # "idle" /\ t.companyId \notin DOMAIN companies) =>
                /\ t.pc \in {"fetch", "done"}
                /\ t.pc = "done" =>
                      /\ t.result.success = FALSE
                      /\ t.result.companyId = t.companyId
                      /\ t.result.error = <<"Company not found: ", t.companyId>>
                /\ t.cvrResult = UndefinedObj
                /\ t.webPresence = UndefinedObj
                /\ t.payload = UndefinedObj)
    /\ [](\A id \in CompanyIds \ DOMAIN companies :
            /\ lastUpsert[id] = UndefinedObj
            /\ \A r \in verification_results : r.company_id # id)
    /\ [][\A b \in BatchIds : \A s \in Slots(b) :
            LET t == tasks[b][s] IN
            (t.pc = "fetch" /\ t.companyId \notin DOMAIN companies
                /\ tasks'[b][s] # t) =>
                /\ tasks'[b][s].pc = "done"
                /\ companies' = companies
                /\ verification_results' = verification_results]_vars

\* the verification of the missing company has ended
C9_Witness ==
    \E s \in Slots(1) :
        /\ tasks[1][s].pc = "done"
        /\ tasks[1][s].companyId = "x"
        /\ "x" \notin DOMAIN companies
        /\ tasks[1][s].result.success = FALSE

\* C10: after a lookup that reports not-found or a search failure the
\* pipeline goes on: the web check and the scorer run, the outcome row and
\* the flags are written (unless the store reports an error), and the call
\* returns success with a confidence, a classification and needsReview.
C10_FailedLookupDoesNotAbort ==
    [][\A b \in BatchIds : \A s \in Slots(b) :
         LET t == tasks[b][s]
             u == tasks'[b][s]
             id == t.companyId
         IN  (t.outcome \in {"notFound", "searchFailed"} /\ u # t) =>
             /\ t.pc = "web" =>
                   /\ u.pc = "upsert"
                   /\ u.webPresence # UndefinedObj
                   /\ u.scoring.confidence \in 0..100
                   /\ u.scoring.classification \in
                          {"startup", "holding", "local_service", "unknown"}
                   /\ u.scoring.needsReview \in BOOLEAN
                   /\ u.payload.confidence_score = u.scoring.confidence
             /\ t.pc = "upsert" =>
                   /\ u.pc = "update"
                   /\ \/ UNCHANGED <<verification_results, lastUpsert>>
                      \/ /\ lastUpsert'[id] = t.payload
                         /\ \E r \in verification_results' :
                               /\ r.company_id = id
                               /\ r.confidence_score = t.scoring.confidence
                               /\ r.classification = t.scoring.classification
                               /\ r.needs_review = t.scoring.needsReview
             /\ t.pc = "update" =>
                   /\ u.pc = "done"
                   /\ u.result.success = TRUE
                   /\ u.result.confidence = t.scoring.confidence
                   /\ u.result.classification = t.scoring.classification
                   /\ u.result.needsReview = t.scoring.needsReview
                   /\ \/ UNCHANGED companies
                      \/ /\ companies'[id].verified = TRUE
                         /\ companies'[id].needs_review = t.scoring.needsReview
             /\ t.pc = "done" => u.pc = "idle"]_vars

\* a verification whose lookup failed in the search has returned success,
\* and its row and its flags are in the store
C10_Witness ==
    \E s \in Slots(1) :
        LET t == tasks[1][s] IN
        /\ t.pc = "done"
        /\ t.outcome = "searchFailed"
        /\ t.result.success = TRUE
        /\ companies[t.companyId].verified = TRUE
        /\ lastUpsert[t.companyId] # UndefinedObj
        /\ "cvr_number" \notin DOMAIN lastUpsert[t.companyId]

\* C11: an error of the outcome upsert or of the flag update never makes
\* a failure: the upsert step always leads to the flag update, the flag
\* update always ends in the success result with the computed confidence,
\* classification and needsReview; a call fails only in its fetch or lookup
\* step, and the guard counts (and pauses on) nothing but those failures.
C11_PersistenceErrorsAreNotFailures ==
    /\ [][\A b \in BatchIds : \A s \in Slots(b) :
            LET t == tasks[b][s]
                u == tasks'[b][s]
            IN  u # t =>
                /\ t.pc = "upsert" => (u.pc = "update" /\ u.scoring = t.scoring)
                /\ t.pc = "update" =>
                      /\ u.pc = "done"
                      /\ u.result.success = TRUE
                      /\ u.result.confidence = t.scoring.confidence
                      /\ u.result.classification = t.scoring.classification
                      /\ u.result.needsReview = t.scoring.needsReview
                /\ (u.outcome = "failed" /\ t.outcome # "failed") =>
                      t.pc \in {"fetch", "lookup"}]_vars
    /\ [](\A b \in BatchIds :
            LET B == batches[b] IN
            /\ \A k \in Range(B.pausedAfter) :
                  k >= 3 /\ OutcomesIn(b, k - 2, k, {"failed"})
            /\ (B.log # <<>> /\ B.log[Len(B.log)].outcome # "failed") =>
                  rateLimitState.consecutiveFailures = 0)

\* both verifications of company a have been tallied as successes although
\* the store took neither an outcome row nor a flag update
C11_Witness ==
    /\ world.storeErrors = BOOLEAN
    /\ Len(batches[1].log) >= 2
    /\ batches[1].results.successful = 2
    /\ batches[1].results.failed = 0
    /\ verification_results = {}
    /\ companies["a"].verified = FALSE
    /\ rateLimitState.consecutiveFailures = 0

\* C12 as stated: every orchestration that reaches the flag update leaves
\* the company verified, with needs_review as the scorer computed it, and
\* one that ends in failure changes neither flag.
C12_FlagsSetAfterEveryFlagUpdate ==
    [][\A b \in BatchIds : \A s \in Slots(b) :
         LET t == tasks[b][s]
             u == tasks'[b][s]
         IN  u # t =>
             /\ t.pc = "update" =>
                   /\ companies'[t.companyId].verified = TRUE
                   /\ companies'[t.companyId].needs_review = t.scoring.needsReview
             /\ (u.pc = "done" /\ u.outcome = "failed") =>
                   companies' = companies]_vars

\* C12: every flag update that the store applies leaves the company
\* verified, with needs_review as the scorer computed it, whatever the
\* confidence and the kind of the lookup result; a flag update that the
\* store answers with an error, and an orchestration that ends in failure,
\* change no row of companies.
C12_FlagsSetByAppliedFlagUpdate ==
    [][\A b \in BatchIds : \A s \in Slots(b) :
         LET t == tasks[b][s]
             u == tasks'[b][s]
         IN  u # t =>
             /\ t.pc = "update" =>
                   \/ companies' = companies
                   \/ /\ companies'[t.companyId].verified = TRUE
                      /\ companies'[t.companyId].needs_review = t.scoring.needsReview
                      /\ \A id \in DOMAIN companies \ {t.companyId} :
                            companies'[id] = companies[id]
             /\ t.pc # "update" => companies' = companies]_vars

\* a company whose lookup failed in the search and whose confidence is
\* below 40 is verified, and its needs_review is the scorer's
C12_Witness ==
    \E s \in Slots(1) :
        LET t == tasks[1][s] IN
        /\ t.pc = "done"
        /\ t.outcome = "searchFailed"
        /\ t.result.success = TRUE
        /\ t.result.confidence < 40
        /\ companies[t.companyId].verified = TRUE
        /\ companies[t.companyId].needs_review = t.result.needsReview

\* C13: a lookup result is of one of three kinds, success with data, clean
\* not-found (no success, no error) or search-failed (no success, an error
\* reason); a lookup in which any step threw is never a clean not-found.
C13_ThrownSearchIsNeverNotFound ==
    (call.fn = "lookupCompany" /\ call.value # UndefinedObj) =>
        LET env == call.input.env
            v == call.value
            reachedList == env.search = "ok" /\ ~env.detailPage
            reachedPage == /\ env.search = "ok"
                           /\ env.detailPage \/ (env.results > 0 /\ env.click = "ok")
            threw == \/ env.search = "throws"
                     \/ reachedList /\ env.results > 0 /\ env.click = "throws"
                     \/ reachedPage /\ env.throwsAt > 0
        IN  /\ LookupKind(v) \in {"found", "notFound", "searchFailed"}
            /\ v.success => ("error" \notin DOMAIN v /\ v.found)
            /\ threw => LookupKind(v) # "notFound"

\* C14: the items of a batch are orchestrated one time each, in the order
\* of the ids, pauses or not: a call is started only for the id that follows
\* the processed ones, every processed item is tallied as successful or as
\* failed, and a finished batch has processed every id, with total the
\* number of ids and successful + failed = total.
C14_EveryIdOnceAndTallied ==
    /\ [](\A b \in BatchIds :
            LET B == batches[b] IN
            /\ B.results.total = Len(B.ids)
            /\ B.results.successful + B.results.failed = Len(B.log)
            /\ Len(B.log) <= Len(B.ids)
            /\ \A k \in DOMAIN B.log : B.log[k].companyId = B.ids[k]
            /\ B.pc = "finished" =>
                  /\ Len(B.log) = Len(B.ids)
                  /\ B.results.successful + B.results.failed = B.results.total)
    /\ [][\A b \in BatchIds : \A s \in Slots(b) :
            LET B == batches[b] IN
            (tasks[b][s].pc # "fetch" /\ tasks'[b][s].pc = "fetch") =>
                /\ B.pc \in {"ready", "delay"}
                /\ Len(B.log) + s <= Len(B.ids)
                /\ tasks'[b][s].companyId = B.ids[Len(B.log) + s]
                /\ \A r \in Slots(b) : tasks[b][r].pc = "idle"]_vars

\* both batches have finished after a pause: the sequential one with three
\* failures and one success, the parallel one with two failures and one
\* success
C14_Witness ==
    /\ \A b \in BatchIds :
          batches[b].pc = "finished" /\ batches[b].results.rateLimitPauses >= 1
    /\ batches[1].mode = "seq"
    /\ batches[1].results.failed = 3 /\ batches[1].results.successful = 1
    /\ batches[2].mode = "par"
    /\ batches[2].results.failed = 2 /\ batches[2].results.successful = 1

\* a call of calculateConfidence that has returned
Scored == call.fn = "calculateConfidence" /\ call.value # UndefinedObj

\* C15: calculateConfidence returns needsReview = TRUE exactly when its
\* confidence, the rounded weighted total of the five sub-scores, is at
\* least 40 and below 70.
C15_NeedsReviewIffMiddleBand ==
    Scored =>
        LET v == call.value
            total == RoundDiv(30 * v.breakdown.cvrStatus + 25 * v.breakdown.industry
                              + 15 * v.breakdown.age + 20 * v.breakdown.webPresence
                              + 10 * v.breakdown.nameMatch, 100)
        IN  /\ v.confidence = total
            /\ v.needsReview \in BOOLEAN
            /\ v.needsReview <=> (40 <= v.confidence /\ v.confidence < 70)

\* calls have returned a confidence of 70 without a review
C15_Witness ==
    /\ Scored
    /\ call.value.confidence = 70
    /\ call.value.needsReview = FALSE

\* C16: the classification calculateConfidence returns is holding
\* (local_service) exactly when classifyIndustryCode types the industry
\* code holding (local_service), whatever the status and the confidence;
\* industry code 642020 always gives holding.
C16_HoldingAndLocalServiceFromIndustryOnly ==
    Scored =>
        LET type == classifyIndustryCode(call.input.industryCode).type
            v == call.value
        IN  /\ v.classification = "holding" <=> type = "holding"
            /\ v.classification = "local_service" <=> type = "local_service"
            /\ call.input.industryCode = <<"6","4","2","0","2","0">> =>
                   v.classification = "holding"
            /\ type \in {"startup", "unknown"} =>
                   v.classification \in {"startup", "unknown"}

\* a dissolved company with industry code 642020 and a confidence below 40
\* is classified holding
C16_Witness ==
    /\ Scored
    /\ call.input.industryCode = <<"6","4","2","0","2","0">>
    /\ call.input.cvrStatus = <<"O","p","l","ø","s","t">>
    /\ call.value.confidence < 40
    /\ call.value.classification = "holding"

\* a call of classifyIndustryCode that has returned
Classified == call.fn = "classifyIndustryCode" /\ call.value # UndefinedObj

\* C17: classifyIndustryCode returns the entry at the longest prefix, of
\* two characters or more, of the normalized code that is a key of one of
\* the three tables; among the tables that have this key the holding table
\* comes first, then local_service, then startup; with no such prefix the
\* type is unknown and the score 50.
C17_LongestPrefixThenTablePriority ==
    Classified =>
        LET v == call.value
            n == IF Truthy(call.input)
                 THEN StripLeadingZeros(RemoveWhitespace(call.input)) ELSE <<>>
            IsKey(len) == LET pre == SubSeq(n, 1, len) IN
                          \/ HasKey(HOLDING_CODES, pre)
                          \/ HasKey(LOCAL_SERVICE_CODES, pre)
                          \/ HasKey(STARTUP_CODES, pre)
            lens == {len \in 2..Len(n) : IsKey(len)}
        IN  IF lens = {}
            THEN v.type = "unknown" /\ v.score = 50
            ELSE LET longest == CHOOSE len \in lens : \A k \in lens : k <= len
                     pre == SubSeq(n, 1, longest)
                     table == IF HasKey(HOLDING_CODES, pre) THEN HOLDING_CODES
                              ELSE IF HasKey(LOCAL_SERVICE_CODES, pre)
                              THEN LOCAL_SERVICE_CODES ELSE STARTUP_CODES
                 IN  /\ v.type = IF HasKey(HOLDING_CODES, pre) THEN "holding"
                                 ELSE IF HasKey(LOCAL_SERVICE_CODES, pre)
                                 THEN "local_service" ELSE "startup"
                     /\ \E i \in DOMAIN table :
                           /\ table[i].key = pre
                           /\ v.score = table[i].score
                           /\ v.label = table[i].label

\* code 649900, whose prefix 6499 is a key of the holding table and of the
\* startup table, has been classified holding
C17_Witness ==
    /\ Classified
    /\ call.input = <<"6","4","9","9","0","0">>
    /\ HasKey(HOLDING_CODES, <<"6","4","9","9">>)
    /\ HasKey(STARTUP_CODES, <<"6","4","9","9">>)
    /\ call.value.type = "holding"
    /\ call.value.score = 60

\* the code with z zeros in front
WithLeadingZeros(code, z) == [k \in 1..z |-> "0"] \o code

\* the code with a space put in after its first k characters
WithSpaceAt(code, k) == SubSeq(code, 1, k) \o <<" ">> \o SubSeq(code, k + 1, Len(code))

\* the classification of the code is also that of the code after zeros
\* were put in front of it or a space was put into it
SameWhenPadded(code, value) ==
    /\ \A z \in 1..MaxZeros : classifyIndustryCode(WithLeadingZeros(code, z)) = value
    /\ \A k \in 0..Len(code) : classifyIndustryCode(WithSpaceAt(code, k)) = value
    /\ \A z \in 1..MaxZeros : \A k \in 0..z :
          classifyIndustryCode(WithSpaceAt(WithLeadingZeros(code, z), k)) = value

\* C18 as stated: for every code, the empty one included, the type, score
\* and label that classifyIndustryCode returns are those it returns for the
\* code with leading zeros or whitespace added.
C18_PaddingNeverChangesTheResult ==
    (Classified /\ call.input # Null) => SameWhenPadded(call.input, call.value)

\* C18: for every code of one character or more, the type, score and label
\* that classifyIndustryCode returns are those it returns for the code with
\* leading zeros or whitespace added; for the empty code the type and the
\* score are the same with and without padding.
C18_PaddingKeepsResultOfNonEmptyCode ==
    (Classified /\ call.input # Null) =>
        /\ call.input # <<>> => SameWhenPadded(call.input, call.value)
        /\ call.input = <<>> =>
              \A z \in 1..MaxZeros :
                 LET padded == classifyIndustryCode(WithLeadingZeros(call.input, z))
                 IN  padded.type = call.value.type /\ padded.score = call.value.score

\* code 620 has been classified startup, as 00620 and as 6 20 are
C18_Witness ==
    /\ Classified
    /\ call.input = <<"6","2","0">>
    /\ call.value.type = "startup"
    /\ classifyIndustryCode(<<"0","0","6","2","0">>) = call.value
    /\ classifyIndustryCode(<<"6"," ","2","0">>) = call.value

C20_PerfectStartup ==
    (/\ Scored
     /\ call.input.industryCode = <<"6","2","0","1","0","0">>
     /\ call.input.cvrStatus = <<"N","o","r","m","a","l">>
     /\ call.input.foundedYear = 2020
     /\ call.input.webPresence # UndefinedObj
     /\ call.input.webPresence.websiteReachable
     /\ call.input.webPresence.linkedInFound
     /\ Truthy(call.input.searchedName) /\ Truthy(call.input.foundName)
     /\ Includes(ToLowerCase(call.input.foundName), ToLowerCase(call.input.searchedName))) =>
        /\ call.value.classification = "startup"
        /\ call.value.confidence >= 80
        /\ call.value.needsReview = FALSE

\* the call of a year in which the company is more than 25 years old, with
\* no social media and no press, and a found name that only contains the
\* searched one: the lowest of these confidences, 81
C20_Witness ==
    /\ Scored
    /\ call.input.industryCode = <<"6","2","0","1","0","0">>
    /\ call.input.cvrStatus = <<"N","o","r","m","a","l">>
    /\ call.input.foundedYear = 2020
    /\ call.currentYear - 2020 > 25
    /\ call.input.webPresence =
          [websiteReachable |-> TRUE, linkedInFound |-> TRUE,
           socialMedia |-> 0, pressFound |-> FALSE]
    /\ call.input.searchedName = PleoName
    /\ call.input.foundName = <<"P","l","e","o"," ","A","p","S">>
    /\ call.value.breakdown.age = 20
    /\ call.value.confidence = 81
    /\ call.value.classification = "startup"

\* C21: when calculateConfidence has scored an input whose status
\* sub-score is 100, the same input with a status of sub-score 0 in its
\* place gets a strictly lower confidence.
C21_DissolvedScoresBelowActive ==
    (Scored /\ call.value.breakdown.cvrStatus = 100) =>
        \A status \in ScoreStatuses :
            scoreCvrStatus(status) = 0 =>
                calculateConfidence([call.input EXCEPT !.cvrStatus = status],
                                    call.currentYear).confidence
                    < call.value.confidence

\* an active company has been scored 100 and the same company, dissolved,
\* scores 70
C21_Witness ==
    /\ Scored
    /\ call.input.cvrStatus = <<"N","o","r","m","a","l">>
    /\ call.value.breakdown.cvrStatus = 100
    /\ call.value.confidence = 100
    /\ scoreCvrStatus(<<"O","p","l","ø","s","t">>) = 0
    /\ calculateConfidence([call.input EXCEPT !.cvrStatus = <<"O","p","l","ø","s","t">>],
                           call.currentYear).confidence = 70

\* C22: the guard evaluation of a failed verifyCompany call leaves
\* consecutiveFailures one higher than it found it and
\* consecutiveSearchFailures zero; in a batch on its own, sequential or
\* parallel, a pause is taken at the third of three failed calls in a row
\* (counted from the start or from the last pause), and at no failed call
\* that is the first or second of its run.
C22_ThreeFailuresInARowPause ==
    \A b \in BatchIds :
        LET B == batches[b] IN
        \A k \in 1..Len(B.log) :
            B.log[k].outcome = "failed" =>
                /\ B.log[k].after.consecutiveFailures
                      = B.log[k].before.consecutiveFailures + 1
                /\ B.log[k].after.consecutiveSearchFailures = 0
                /\ LET run == CHOOSE n \in 1..k :
                                  /\ OutcomesIn(b, k - n + 1, k, {"failed"})
                                  /\ (n = k \/ B.log[k - n].outcome # "failed")
                   IN  (k \in Range(B.pausedAfter)) <=> (run % 3 = 0)

\* a batch has paused after its fourth and after its seventh call, the
\* third and the sixth of six failed calls in a row
C22_Witness ==
    /\ batches[1].mode \in {"seq", "par"}
    /\ OutcomesIn(1, 2, 7, {"failed"})
    /\ batches[1].pausedAfter = <<4, 7>>
    /\ batches[1].log[4].after.consecutiveFailures = 3
    /\ batches[1].log[5].before.consecutiveFailures = 0

\* the counters that the four rules of the guard make of the counters c
\* for one outcome
CountersAfter(c, outcome) ==
    IF outcome = "failed"
    THEN [consecutiveSearchFailures |-> 0,
          consecutiveFailures |-> c.consecutiveFailures + 1]
    ELSE IF outcome = "searchFailed"
    THEN [consecutiveSearchFailures |-> c.consecutiveSearchFailures + 1,
          consecutiveFailures |-> 0]
    ELSE [consecutiveSearchFailures |-> 0, consecutiveFailures |-> 0]

\* C23: in a parallel batch on its own the guard evaluations of a chunk
\* are one after the other, in chunk order: each finds the counters as the
\* evaluation before it (or the reset after the pause it caused) left
\* them, leaves them as the rule for its outcome says, and is followed by a
\* pause exactly when a counter has then reached 3; rateLimitPauses is the
\* number of these triggers.
C23_GuardEvaluationsOneAtATime ==
    \A b \in BatchIds :
        LET B == batches[b]
            zero == [consecutiveSearchFailures |-> 0, consecutiveFailures |-> 0]
        IN  B.mode = "par" =>
            /\ \A k \in 1..Len(B.log) :
                  /\ B.log[k].before =
                        IF k = 1 THEN zero
                        ELSE IF (k - 1) \in Range(B.pausedAfter) THEN zero
                        ELSE B.log[k - 1].after
                  /\ B.log[k].after = CountersAfter(B.log[k].before, B.log[k].outcome)
                  /\ (k \in Range(B.pausedAfter)) <=>
                        (\/ B.log[k].after.consecutiveSearchFailures >= 3
                         \/ B.log[k].after.consecutiveFailures >= 3)
            /\ B.results.rateLimitPauses = Len(B.pausedAfter)

\* C24: any two alerts of alertRateLimit are 10 minutes or more apart; a
\* call less than 10 minutes after the last alert logs none and leaves
\* lastAlertTime as it was; the first call always logs one.
C24_AlertsTenMinutesApart ==
    call.fn = "alertRateLimit" =>
        /\ \A i, j \in DOMAIN call.alerts :
              i < j => call.alerts[j] - call.alerts[i] >= 10
        /\ call.trigger # UndefinedObj =>
              LET g == call.trigger IN
              /\ call.alerts # <<>>
              /\ rateLimitState.lastAlertTime = call.alerts[Len(call.alerts)]
              /\ g.before = NoTime =>
                    (g.emitted /\ call.alerts = <<g.time>>)
              /\ (g.before # NoTime /\ g.time - g.before < 10) =>
                    (~g.emitted /\ rateLimitState.lastAlertTime = g.before)
              /\ (g.before # NoTime /\ g.time - g.before >= 10) =>
                    (g.emitted /\ rateLimitState.lastAlertTime = g.time)

\* alerts were logged at minutes 3 and 13, and the call at minute 21, 8
\* minutes after the second alert, logged none
C24_Witness ==
    /\ call.fn = "alertRateLimit"
    /\ call.alerts = <<3, 13>>
    /\ call.trigger = [time |-> 21, before |-> 13, emitted |-> FALSE]
    /\ rateLimitState.lastAlertTime = 13

\* C25: in the value of calculateConfidence the status sub-score is 50
\* for a missing or unknown status, the industry sub-score 50 for a missing
\* or unknown code, the age sub-score 50 for a missing founding year, the
\* name-match sub-score 50 when the searched or the found name is missing,
\* and the web-presence sub-score 0 for a missing web presence.
C25_MissingInputsScoreNeutral ==
    Scored =>
        LET in == call.input
            sub == call.value.breakdown
        IN  /\ (in.cvrStatus = Null \/ in.cvrStatus = <<"U","k","e","n","d","t">>) =>
                  sub.cvrStatus = 50
            /\ (in.industryCode = Null
                 \/ in.industryCode = <<"9","9","9","9","9","9">>) =>
                  sub.industry = 50
            /\ in.foundedYear = NoYear => sub.age = 50
            /\ (~Truthy(in.searchedName) \/ ~Truthy(in.foundName)) =>
                  sub.nameMatch = 50
            /\ in.webPresence = UndefinedObj => sub.webPresence = 0

\* C26: for a founding year that is given, the age sub-score follows the
\* age, the year of the call minus the founding year: 100 for 1 to 5, 85
\* for 6 to 10, 60 for 11 to 15, 40 for 16 to 25, 20 above 25, 70 for 0 and
\* 0 for a negative age.
C26_AgeBuckets ==
    (Scored /\ call.input.foundedYear # NoYear) =>
        LET age == call.currentYear - call.input.foundedYear
        IN  call.value.breakdown.age =
                IF age < 0 THEN 0
                ELSE IF age = 0 THEN 70
                ELSE IF age <= 5 THEN 100
                ELSE IF age <= 10 THEN 85
                ELSE IF age <= 15 THEN 60
                ELSE IF age <= 25 THEN 40
                ELSE 20

\* C27: the presenceScore that checkWebPresence returns is the sub-score
\* scoreWebPresence gives for the same probe results (as verifyCompany
\* hands them over, with pressFound false), and both are 40 for a reachable
\* website plus 10 if it is HTTPS, plus 30 for a profile found, plus 5 per
\* social platform up to 20, capped at 100.
C27_PresenceScoreIsWebSubScore ==
    (call.fn = "checkWebPresence" /\ call.value # UndefinedObj) =>
        LET v == call.value
            in == call.input
            subScore == scoreWebPresence([websiteReachable |-> v.websiteReachable,
                                          linkedInFound |-> v.linkedInFound,
                                          socialMedia |-> v.socialMedia,
                                          pressFound |-> FALSE])
            formula == Min(100,
                           (IF in.website.reachable
                            THEN 40 + (IF in.website.hasHttps THEN 10 ELSE 0) ELSE 0)
                           + (IF in.linkedin.found THEN 30 ELSE 0)
                           + Min(20, 5 * in.social.count))
        IN  /\ v.presenceScore = subScore
            /\ v.presenceScore = formula
            /\ subScore = formula

\* C28: at most one of consecutiveSearchFailures and consecutiveFailures
\* is non-zero, in the guard state and before and after every guard
\* evaluation; and while one batch runs on its own neither is ever above 3.
C28_OneCounterRunsAndStopsAtThree ==
    LET oneNonZero(c) == c.consecutiveSearchFailures = 0 \/ c.consecutiveFailures = 0
        upToLimit(c) ==
            /\ c.consecutiveSearchFailures <= RATE_LIMIT_THRESHOLDS.searchFailureLimit
            /\ c.consecutiveFailures <= RATE_LIMIT_THRESHOLDS.failureLimit
        alone == \E b \in BatchIds : batches[b].mode = "none"
    IN  /\ oneNonZero(rateLimitState)
        /\ alone => upToLimit(rateLimitState)
        /\ \A b \in BatchIds : \A k \in DOMAIN batches[b].log :
              /\ oneNonZero(batches[b].log[k].before)
              /\ oneNonZero(batches[b].log[k].after)
              /\ alone => (upToLimit(batches[b].log[k].before)
                            /\ upToLimit(batches[b].log[k].after))

\* a sequential batch on its own is in its second pause with
\* consecutiveFailures at 3, after six failed calls in a row
C28_Witness ==
    /\ batches[1].mode = "seq" /\ batches[2].mode = "none"
    /\ batches[1].pc = "paused"
    /\ Len(batches[1].pausedAfter) = 2
    /\ OutcomesIn(1, 2, 7, {"failed"})
    /\ rateLimitState.consecutiveFailures = 3
    /\ rateLimitState.consecutiveSearchFailures = 0

\* C29 as stated: every company whose verified flag the engine has set
\* has a row in verification_results.
C29_VerifiedHasStoredOutcome ==
    \A id \in DOMAIN companies :
        (companies[id].verified /\ ~InitialCompanies[id].verified) =>
            \E r \in verification_results : r.company_id = id

\* C29: the verified flag of a company is set only by the flag update of
\* an orchestration for that company, after the outcome upsert of that
\* orchestration: at that moment a row for the company is stored, unless
\* the store answered the upsert with an error, which is only logged.
C29_VerifiedAfterUpsertAttempt ==
    [][\A id \in DOMAIN companies :
         (companies'[id].verified /\ ~companies[id].verified) =>
             \E b \in BatchIds : \E s \in Slots(b) :
                 LET t == tasks[b][s] IN
                 /\ t.pc = "update"
                 /\ t.companyId = id
                 /\ tasks'[b][s].pc = "done"
                 /\ \/ t.insertError
                    \/ \E r \in verification_results : r.company_id = id]_vars

\* company a has been verified by an orchestration whose upsert the store
\* answered with an error: no outcome is stored
C29_Witness ==
    /\ companies["a"].verified = TRUE
    /\ verification_results = {}
    /\ \E s \in Slots(1) :
          /\ tasks[1][s].pc = "done"
          /\ tasks[1][s].companyId = "a"
          /\ tasks[1][s].result.success = TRUE

\* the guard evaluations of batch b that found a counter at its threshold
Triggers(b) ==
    {k \in DOMAIN batches[b].log :
        \/ batches[b].log[k].after.consecutiveSearchFailures
              >= RATE_LIMIT_THRESHOLDS.searchFailureLimit
        \/ batches[b].log[k].after.consecutiveFailures
              >= RATE_LIMIT_THRESHOLDS.failureLimit}

\* C30: in every batch rateLimitPauses is the number of guard triggers so
\* far, and every trigger, whether its alert is logged or suppressed, puts
\* the batch into one pause of five minutes and adds one to
\* rateLimitPauses.
C30_EveryTriggerPausesAndIsCounted ==
    /\ [](\A b \in BatchIds :
            /\ batches[b].results.rateLimitPauses = Cardinality(Triggers(b))
            /\ Range(batches[b].pausedAfter) = Triggers(b)
            /\ Len(batches[b].pausedAfter) = Cardinality(Triggers(b)))
    /\ [][\A b \in BatchIds :
            LET B == batches[b]
                A == batches'[b]
            IN  Len(A.log) > Len(B.log) =>
                   IF Len(A.log) \in Triggers(b)'
                   THEN /\ A.pc = "paused"
                        /\ A.wakeAt = now + RATE_LIMIT_THRESHOLDS.pauseDuration
                        /\ A.results.rateLimitPauses = B.results.rateLimitPauses + 1
                        /\ rateLimitState'.lastAlertTime \in
                               {now, rateLimitState.lastAlertTime}
                   ELSE A.results.rateLimitPauses = B.results.rateLimitPauses]_vars

\* the parallel batch has finished with one pause counted, taken at a
\* trigger whose alert was suppressed: the last alert is older than that
\* trigger
C30_Witness ==
    /\ batches[2].mode = "par"
    /\ batches[2].pc = "finished"
    /\ batches[2].results.rateLimitPauses = 1
    /\ Cardinality(Triggers(2)) = 1
    /\ batches[1].results.rateLimitPauses >= 1
    /\ rateLimitState.lastAlertTime # NoTime
    /\ rateLimitState.lastAlertTime
          < batches[2].wakeAt - RATE_LIMIT_THRESHOLDS.pauseDuration

====
